---- MODULE Spec2Model ----
(***************************************************************************)
(* Verification model of the segment reconciliation and alignment engine   *)
(* of python-practice:                                                     *)
(*   - asr-subtitle-compare/detail_compare.py  detect_segment_patterns     *)
(*   - vad_filter/make_filter_cli.py           vad_filter_only (step 5)    *)
(*   - vad_filter_compare/compare_vad_wavs.py  best_offset, shift_mask     *)
(*   - subtitle-cer/cer_compare.py             levenshtein_ops,            *)
(*                                             cer_from_texts              *)
(*   - asr-subtitle-compare/utils.py           calculate_wer               *)
(*   - asr-subtitle-compare/compare.py         compare_srt_files           *)
(*   - asr-subtitle-compare/detail_compare.py  generate_advanced_report    *)
(*   - asr-subtitle-compare/utils.py           parse_srt, parse_time       *)
(*   - vad_filter_compare/analyze_whisper_segments.py  load_segments       *)
(*   - vad_filter/vad_test.py                  vad_filter (filtering part) *)
(*   - scheduler-fast-api/main.py              stt_main, stt_progress      *)
(* Each routine is a state machine of its own (SpecSeg, SpecVad, SpecOff,  *)
(* SpecShift, SpecLev, SpecRep, SpecParse); the variables of the routines  *)
(* that are not running stay at their idle values.                         *)
(*                                                                         *)
(* Conventions.  Times are integers (one unit = one tick of the subtitle   *)
(* clock), so the float comparisons of the source are exact comparisons of *)
(* rationals, written by cross-multiplication.  A text is a sequence of    *)
(* one-character strings.  A similarity is a pair <<num, den>> standing    *)
(* for num/den.  A reference to an SRTSegment object is its position in    *)
(* the list that holds it (0 stands for None).                             *)
(***************************************************************************)
EXTENDS Integers, Sequences, FiniteSets, TLC

VARIABLES
    \* detect_segment_patterns
    segments1, segments2, patterns, matched_seg2_indices, pos, pcSeg,
    \* vad_filter_only
    wav, sr, speech_timestamps, long_sil_threshold_s, processed, speech_mask,
    in_sil, sil_start, silenced, seg_k, scan_i, pcVad,
    \* best_offset
    mask_a, mask_b, max_shift, sh, best_sh, best_score, pcOff,
    \* levenshtein_ops, calculate_wer, cer_from_texts
    lev_ref, lev_hyp, lev_out, lev_swapped, wer_out, cer_out, pcLev,
    \* compare_srt_files, generate_advanced_report
    rep_entry, rep_out, rep_error, pcRep,
    \* parse_srt
    srt_content, srt_segments, srt_pos, srt_warnings, pcSrt,
    \* load_segments
    json_segments, load_out, load_pos, load_error, pcLoad,
    \* vad_test.vad_filter
    vt_out,
    \* scheduler-fast-api/main.py: the dict, the last response, and the
    \* statuses reported for each key since it was last created
    request_status, stt_response, stt_polls

segVars == <<segments1, segments2, patterns, matched_seg2_indices, pos, pcSeg>>

vadVars == <<wav, sr, speech_timestamps, long_sil_threshold_s, processed, speech_mask,
             in_sil, sil_start, silenced, seg_k, scan_i, pcVad>>

offVars == <<mask_a, mask_b, max_shift, sh, best_sh, best_score, pcOff>>

levVars == <<lev_ref, lev_hyp, lev_out, lev_swapped, wer_out, cer_out, pcLev>>

repVars == <<rep_entry, rep_out, rep_error, pcRep>>

srtVars == <<srt_content, srt_segments, srt_pos, srt_warnings, pcSrt>>

loadVars == <<json_segments, load_out, load_pos, load_error, pcLoad>>

vtVars == <<vt_out>>

sttVars == <<request_status, stt_response, stt_polls>>

vars == <<segVars, vadVars, offVars, levVars, repVars, srtVars, loadVars, vtVars, sttVars>>

\* what a step of one routine leaves alone
segRest == <<vadVars, offVars, levVars, repVars, srtVars, loadVars, vtVars, sttVars>>
vadRest == <<segVars, offVars, levVars, repVars, srtVars, loadVars, vtVars, sttVars>>
offRest == <<segVars, vadVars, levVars, repVars, srtVars, loadVars, vtVars, sttVars>>
levRest == <<segVars, vadVars, offVars, repVars, srtVars, loadVars, vtVars, sttVars>>
repRest == <<vadVars, offVars, levVars, srtVars, loadVars, vtVars, sttVars>>
srtRest == <<segVars, vadVars, offVars, levVars, repVars, loadVars, vtVars, sttVars>>
loadRest == <<segVars, vadVars, offVars, levVars, repVars, srtVars, vtVars, sttVars>>
vtRest == <<segVars, vadVars, offVars, levVars, repVars, srtVars, loadVars, sttVars>>
sttRest == <<segVars, vadVars, offVars, levVars, repVars, srtVars, loadVars, vtVars>>

-----------------------------------------------------------------------------
(* Small helpers *)

Min2(x, y) == IF x <= y THEN x ELSE y
Max2(x, y) == IF x >= y THEN x ELSE y
Abs(x) == IF x < 0 THEN -x ELSE x
Indices(s) == [k \in 1..Len(s) |-> k]
Range(s) == {s[k] : k \in 1..Len(s)}

RECURSIVE SeqsUpTo(_, _)
\* all sequences over S of length <= n
SeqsUpTo(S, n) ==
    IF n = 0 THEN {<<>>}
    ELSE LET shorter == SeqsUpTo(S, n - 1)
         IN  shorter \cup {Append(s, x) : s \in {t \in shorter : Len(t) = n - 1}, x \in S}

-----------------------------------------------------------------------------
(* utils.normalize_text *)

LowerChar(c) == CASE c = "A" -> "a" [] c = "B" -> "b" [] OTHER -> c
IsSpace(c) == c = " "
IsWord(c) == c \in {"a", "b", "A", "B"}

\* text.lower()
Lower(text) == [k \in 1..Len(text) |-> LowerChar(text[k])]

\* re.sub(r'[^\w\s]', '', text)
RemovePunct(text) == SelectSeq(text, LAMBDA c : IsWord(c) \/ IsSpace(c))

\* re.sub(r'\s+', ' ', text): a whitespace character that follows another one
\* belongs to the same run and disappears
CollapseSpaces(text) ==
    LET keep == SelectSeq(Indices(text),
                          LAMBDA k : ~(IsSpace(text[k]) /\ k > 1 /\ IsSpace(text[k - 1])))
    IN  [k \in 1..Len(keep) |-> IF IsSpace(text[keep[k]]) THEN " " ELSE text[keep[k]]]

\* text.strip()
Strip(text) ==
    LET nonsp == {k \in 1..Len(text) : ~IsSpace(text[k])}
    IN  IF nonsp = {} THEN <<>>
        ELSE LET lo == CHOOSE k \in nonsp : \A m \in nonsp : k <= m
                 hi == CHOOSE k \in nonsp : \A m \in nonsp : k >= m
             IN  SubSeq(text, lo, hi)

normalize_text(text) == Strip(CollapseSpaces(RemovePunct(Lower(text))))

-----------------------------------------------------------------------------
(* difflib.SequenceMatcher(None, a, b).ratio(), as the standard library    *)
(* computes it for texts under 200 characters (no junk, no autojunk).      *)

\* length of the common run of x from i and y from j, inside x[i..ahi], y[j..bhi]
RECURSIVE RunLen(_, _, _, _, _, _)
RunLen(x, y, i, j, ahi, bhi) ==
    IF i > ahi \/ j > bhi \/ x[i] # y[j] THEN 0
    ELSE 1 + RunLen(x, y, i + 1, j + 1, ahi, bhi)

\* find_longest_match on x[alo..ahi], y[blo..bhi] (inclusive, 1-based): the
\* longest block, the earliest in x among the longest, the earliest in y
\* among those; <<alo, blo, 0>> when nothing matches
find_longest_match(x, y, alo, ahi, blo, bhi) ==
    LET cand == {<<i, j, RunLen(x, y, i, j, ahi, bhi)>> : i \in alo..ahi, j \in blo..bhi}
        pos3 == {c \in cand : c[3] > 0}
    IN  IF pos3 = {} THEN <<alo, blo, 0>>
        ELSE CHOOSE c \in pos3 :
                \A d \in pos3 :
                    \/ c[3] > d[3]
                    \/ c[3] = d[3] /\ c[1] < d[1]
                    \/ c[3] = d[3] /\ c[1] = d[1] /\ c[2] <= d[2]

\* sum of the sizes of get_matching_blocks(): the longest block, then the
\* pieces to its left and to its right, recursively
RECURSIVE MatchingSize(_, _, _, _, _, _)
MatchingSize(x, y, alo, ahi, blo, bhi) ==
    IF alo > ahi \/ blo > bhi THEN 0
    ELSE LET m == find_longest_match(x, y, alo, ahi, blo, bhi)
         IN  IF m[3] = 0 THEN 0
             ELSE m[3]
                  + MatchingSize(x, y, alo, m[1] - 1, blo, m[2] - 1)
                  + MatchingSize(x, y, m[1] + m[3], ahi, m[2] + m[3], bhi)

\* ratio() = 2.0 * matches / (len(a) + len(b)), and 1.0 when both are empty
ratio(x, y) ==
    IF Len(x) + Len(y) = 0 THEN <<1, 1>>
    ELSE <<2 * MatchingSize(x, y, 1, Len(x), 1, Len(y)), Len(x) + Len(y)>>

\* comparisons of similarities <<n, d>> (d > 0)
SimLT(p, q) == p[1] * q[2] < q[1] * p[2]
SimGE(p, q) == ~SimLT(p, q)
SimGT(p, q) == SimLT(q, p)

\* SequenceMatcher(None, normalize_text(t1), normalize_text(t2)).ratio()
text_similarity(t1, t2) == ratio(normalize_text(t1), normalize_text(t2))


-----------------------------------------------------------------------------
(* detail_compare.py *)

OverlapThreshold == <<1, 5>>        \* threshold=0.2
TextMatchThreshold == <<85, 100>>   \* threshold=0.85
NearIdentity == <<95, 100>>         \* 0.95

SRTSegment(index, start_time, end_time, text) ==
    [index |-> index, start_time |-> start_time, end_time |-> end_time, text |-> text]

\* the body of the loop of find_all_overlapping_segments: is other_seg appended?
overlap_ratio_meets(seg, other_seg, threshold) ==
    LET overlap_start == Max2(seg.start_time, other_seg.start_time)
        overlap_end == Min2(seg.end_time, other_seg.end_time)
        overlap_duration == Max2(0, overlap_end - overlap_start)
        seg_duration == seg.end_time - seg.start_time
        other_duration == other_seg.end_time - other_seg.start_time
    IN  /\ seg_duration > 0
        /\ other_duration > 0
        /\ overlap_duration * threshold[2]
               >= threshold[1] * Min2(seg_duration, other_duration)

\* find_all_overlapping_segments returning from inside the loop: only the
\* first overlapping segment is found
find_all_overlapping_segments_first(seg, segments, threshold) ==
    LET all == SelectSeq(Indices(segments),
                         LAMBDA k : overlap_ratio_meets(seg, segments[k], threshold))
    IN  IF all = <<>> THEN <<>> ELSE <<all[1]>>

\* the positions in `segments` of the segments appended, in list order
find_all_overlapping_segments(seg, segments, threshold) ==
    SelectSeq(Indices(segments), LAMBDA k : overlap_ratio_meets(seg, segments[k], threshold))

\* the loop of find_text_based_match from position k on
RECURSIVE TextMatchScan(_, _, _, _, _, _)
TextMatchScan(seg, segments, threshold, k, best_match, best_similarity) ==
    IF k > Len(segments) THEN <<best_match, best_similarity>>
    ELSE LET similarity == text_similarity(seg.text, segments[k].text)
         IN  IF SimGT(similarity, best_similarity) /\ SimGE(similarity, threshold)
             THEN TextMatchScan(seg, segments, threshold, k + 1, k, similarity)
             ELSE TextMatchScan(seg, segments, threshold, k + 1, best_match, best_similarity)

\* find_text_based_match without its threshold test
find_text_based_match_any(seg, segments, threshold) ==
    TextMatchScan(seg, segments, <<0, 1>>, 1, 0, <<0, 1>>)

\* <<best_match, best_similarity>>, best_match = 0 for None
find_text_based_match(seg, segments, threshold) ==
    TextMatchScan(seg, segments, threshold, 1, 0, <<0, 1>>)

EmptyPatterns ==
    [one_to_one |-> <<>>, merged |-> <<>>, split |-> <<>>, missing |-> <<>>,
     text_diff_only |-> <<>>, timeline_mismatch |-> <<>>]

\* NoOverlapCase recording nothing when segments2 has no candidate at all
NoOverlapCase_skip_empty(p, m, i) ==
    LET seg1 == segments1[i]
        found == find_text_based_match(seg1, segments2, TextMatchThreshold)
        text_match == found[1]
        similarity == found[2]
    IN  IF text_match # 0
        THEN [matched |-> m \cup {segments2[text_match].index},
              patterns |-> [p EXCEPT !.timeline_mismatch = Append(@,
                  [seg1 |-> i, seg2 |-> text_match, similarity |-> similarity,
                   time_diff_ms |->
                       <<Abs((seg1.start_time + seg1.end_time)
                             - (segments2[text_match].start_time
                                + segments2[text_match].end_time)), 2>>])]]
        ELSE [matched |-> m,
              patterns |-> IF Len(segments2) = 0 THEN p
                           ELSE [p EXCEPT !.missing =
                                    Append(@, [seg1 |-> i, seg2_list |-> <<>>])]]

\* len(overlapping) == 0
NoOverlapCase(p, m, i) ==
    LET seg1 == segments1[i]
        found == find_text_based_match(seg1, segments2, TextMatchThreshold)
        text_match == found[1]
        similarity == found[2]
    IN  IF text_match # 0
        THEN [matched |-> m \cup {segments2[text_match].index},
              patterns |-> [p EXCEPT !.timeline_mismatch = Append(@,
                  [seg1 |-> i, seg2 |-> text_match, similarity |-> similarity,
                   time_diff_ms |->
                       <<Abs((seg1.start_time + seg1.end_time)
                             - (segments2[text_match].start_time
                                + segments2[text_match].end_time)), 2>>])]]
        ELSE [matched |-> m,
              patterns |-> [p EXCEPT !.missing = Append(@, [seg1 |-> i, seg2_list |-> <<>>])]]

\* SingleOverlapCase without the similarity test: always one_to_one
SingleOverlapCase_untested(p, m, i, overlapping) ==
    LET seg2 == overlapping[1]
        similarity == text_similarity(segments1[i].text, segments2[seg2].text)
        rec == [seg1 |-> i, seg2 |-> seg2, similarity |-> similarity]
    IN  [matched |-> m \cup {segments2[seg2].index},
         patterns |-> [p EXCEPT !.one_to_one = Append(@, rec)]]

\* len(overlapping) == 1
SingleOverlapCase(p, m, i, overlapping) ==
    LET seg2 == overlapping[1]
        similarity == text_similarity(segments1[i].text, segments2[seg2].text)
        rec == [seg1 |-> i, seg2 |-> seg2, similarity |-> similarity]
    IN  [matched |-> m \cup {segments2[seg2].index},
         patterns |-> IF SimLT(similarity, NearIdentity)
                      THEN [p EXCEPT !.text_diff_only = Append(@, rec)]
                      ELSE [p EXCEPT !.one_to_one = Append(@, rec)]]

\* the first candidate of `overlapping` whose text is near-identical, or 0
ExactMatch(i, overlapping) ==
    LET hits == {k \in 1..Len(overlapping) :
                    SimGT(text_similarity(segments1[i].text, segments2[overlapping[k]].text),
                          NearIdentity)}
    IN  IF hits = {} THEN 0
        ELSE overlapping[CHOOSE k \in hits : \A h \in hits : k <= h]

\* MultiOverlapCase without its `else`: a disguised one-to-one is recorded as
\* a split as well
MultiOverlapCase_fallthrough(p, m, i, overlapping) ==
    LET exact_match == ExactMatch(i, overlapping)
        q == IF exact_match # 0
             THEN [p EXCEPT !.one_to_one = Append(@,
                      [seg1 |-> i, seg2 |-> exact_match, similarity |-> <<1, 1>>])]
             ELSE p
    IN  [matched |-> m \cup {segments2[k].index : k \in Range(overlapping)},
         patterns |-> [q EXCEPT !.split = Append(@, [seg1 |-> i, seg2_list |-> overlapping])]]

\* len(overlapping) > 1
MultiOverlapCase(p, m, i, overlapping) ==
    LET exact_match == ExactMatch(i, overlapping)
    IN  IF exact_match # 0
        THEN [matched |-> m \cup {segments2[exact_match].index},
              patterns |-> [p EXCEPT !.one_to_one = Append(@,
                  [seg1 |-> i, seg2 |-> exact_match, similarity |-> <<1, 1>>])]]
        ELSE [matched |-> m \cup {segments2[k].index : k \in Range(overlapping)},
              patterns |-> [p EXCEPT !.split = Append(@,
                  [seg1 |-> i, seg2_list |-> overlapping])]]

\* one iteration of `for seg1 in segments1`
ForwardBody(p, m, i) ==
    LET overlapping == find_all_overlapping_segments(segments1[i], segments2, OverlapThreshold)
    IN  CASE Len(overlapping) = 0 -> NoOverlapCase(p, m, i)
          [] Len(overlapping) = 1 -> SingleOverlapCase(p, m, i, overlapping)
          [] OTHER -> MultiOverlapCase(p, m, i, overlapping)

\* BackwardBody without the test on matched_seg2_indices
BackwardBody_unfiltered(p, m, j) ==
    LET overlapping_seg1 ==
            find_all_overlapping_segments(segments2[j], segments1, OverlapThreshold)
    IN  IF Len(overlapping_seg1) > 1
        THEN [p EXCEPT !.merged = Append(@, [seg1_list |-> overlapping_seg1, seg2 |-> j])]
        ELSE p

\* one iteration of `for seg2 in segments2`
BackwardBody(p, m, j) ==
    IF segments2[j].index \notin m
    THEN LET overlapping_seg1 ==
                 find_all_overlapping_segments(segments2[j], segments1, OverlapThreshold)
         IN  IF Len(overlapping_seg1) > 1
             THEN [p EXCEPT !.merged = Append(@, [seg1_list |-> overlapping_seg1, seg2 |-> j])]
             ELSE p
    ELSE p

-----------------------------------------------------------------------------
(* Inputs of detect_segment_patterns *)

MaxSegs == 4    \* segments in the two lists together

\* time range and text of the segments tried
SegShapes ==
    { <<0, 2, <<"a", " ", "b">>>>,
      <<0, 2, <<"A", " ", " ", "b", "!">>>>,
      <<0, 1, <<"a">>>>,
      <<1, 2, <<"b">>>>,
      <<1, 1, <<"b">>>>,
      <<2, 3, <<"a", " ", "b", "b">>>> }

\* a list of segments numbered as a subtitle file numbers them (1, 2, ...),
\* or all carrying the number 1 when dup (numbers repeat in malformed files)
Numbered(shapes, dup) ==
    [k \in 1..Len(shapes) |->
        SRTSegment(IF dup THEN 1 ELSE k, shapes[k][1], shapes[k][2], shapes[k][3])]

SegStart ==
    /\ \E s1 \in SeqsUpTo(SegShapes, MaxSegs) :
       \E s2 \in SeqsUpTo(SegShapes, MaxSegs - Len(s1)) :
       \E dup \in BOOLEAN :
          /\ segments1 = Numbered(s1, FALSE)
          /\ segments2 = Numbered(s2, dup)
    /\ patterns = EmptyPatterns
    /\ matched_seg2_indices = {}
    /\ pos = 1
    /\ pcSeg = "forward"

ForwardStep ==
    /\ pcSeg = "forward"
    /\ pos <= Len(segments1)
    /\ LET r == ForwardBody(patterns, matched_seg2_indices, pos)
       IN  /\ patterns' = r.patterns
           /\ matched_seg2_indices' = r.matched
    /\ pos' = pos + 1
    /\ UNCHANGED <<segments1, segments2, pcSeg, segRest>>

ForwardDone ==
    /\ pcSeg = "forward"
    /\ pos > Len(segments1)
    /\ pcSeg' = "backward"
    /\ pos' = 1
    /\ UNCHANGED <<segments1, segments2, patterns, matched_seg2_indices, segRest>>

BackwardStep ==
    /\ pcSeg = "backward"
    /\ pos <= Len(segments2)
    /\ patterns' = BackwardBody(patterns, matched_seg2_indices, pos)
    /\ pos' = pos + 1
    /\ UNCHANGED <<segments1, segments2, matched_seg2_indices, pcSeg, segRest>>

BackwardDone ==
    /\ pcSeg = "backward"
    /\ pos > Len(segments2)
    /\ pcSeg' = "done"
    /\ UNCHANGED <<segments1, segments2, patterns, matched_seg2_indices, pos, segRest>>

SegIdle ==
    /\ segments1 = <<>>
    /\ segments2 = <<>>
    /\ patterns = EmptyPatterns
    /\ matched_seg2_indices = {}
    /\ pos = 1
    /\ pcSeg = "idle"

-----------------------------------------------------------------------------
(* make_filter_cli.py, vad_filter_only, step 5: only the long silences are *)
(* zeroed, the length is kept.  A tensor is a sequence; the sample at      *)
(* Python index i is element i + 1.  Speech timestamps and the threshold   *)
(* are in half seconds (exact as floats), sr in samples per second.        *)

\* int(t * sr) for a time of t half seconds, t >= 0
to_sample(t, rate) == (t * rate) \div 2

\* x[lo:hi] = True on a tensor, 0 <= lo, 0 <= hi: the slice is clipped to
\* the tensor, and empty when lo >= hi
set_true_slice(x, lo, hi) ==
    [k \in 1..Len(x) |-> IF lo <= k - 1 /\ k - 1 < hi THEN TRUE ELSE x[k]]

\* zero_slice with the end bound taken as inclusive
zero_slice_inclusive(x, lo, hi) ==
    [k \in 1..Len(x) |-> IF lo <= k - 1 /\ k - 1 <= hi THEN 0 ELSE x[k]]

\* zero_slice cutting the samples out instead of overwriting them
zero_slice_cut(x, lo, hi) ==
    SubSeq(x, 1, Min2(lo, Len(x))) \o SubSeq(x, Max2(lo, hi) + 1, Len(x))

\* x[lo:hi] = 0.0 on a tensor, 0 <= lo, 0 <= hi
zero_slice(x, lo, hi) ==
    [k \in 1..Len(x) |-> IF lo <= k - 1 /\ k - 1 < hi THEN 0 ELSE x[k]]

\* is_long_silence with > for >=
is_long_silence_strict(start, i, rate, threshold) ==
    2 * (i - start + 1) > threshold * rate

\* sil_len_s >= long_sil_threshold_s, sil_len_s = (i - sil_start + 1) / sr
is_long_silence(start, i, rate, threshold) ==
    2 * (i - start + 1) >= threshold * rate

\* is_last or next_is_speech
run_ends_at(mask, i) ==
    LET is_last == (i = Len(mask) - 1)
        next_is_speech == ~is_last /\ mask[i + 2]
    IN  is_last \/ next_is_speech

MaxSamples == 4    \* samples in the signal
MaxStamps == 2     \* speech segments returned by the detector

Amplitudes == {0, 1}
SampleRates == {1, 2}
\* long_sil_threshold_s tried: 0.0, 0.5, 1.0 (the default) and 1.5 seconds
Thresholds == {0, 1, 2, 3}
\* speech segments tried, in half seconds; <<3, 3>> is empty, <<5, 8>> lies
\* past the end of the shorter signals
StampPool ==
    { [start |-> 0, end |-> 2], [start |-> 2, end |-> 3],
      [start |-> 3, end |-> 3], [start |-> 5, end |-> 8] }

VadStart ==
    /\ \E n \in 0..MaxSamples : wav \in [1..n -> Amplitudes]
    /\ sr \in SampleRates
    /\ speech_timestamps \in SeqsUpTo(StampPool, MaxStamps)
    /\ long_sil_threshold_s \in Thresholds
    /\ processed = <<>>
    /\ speech_mask = <<>>
    /\ in_sil = FALSE
    /\ sil_start = 0
    /\ silenced = 0
    /\ seg_k = 1
    /\ scan_i = 0
    /\ pcVad = "clone"

VadIdle ==
    /\ wav = <<>>
    /\ sr = 1
    /\ speech_timestamps = <<>>
    /\ long_sil_threshold_s = 0
    /\ processed = <<>>
    /\ speech_mask = <<>>
    /\ in_sil = FALSE
    /\ sil_start = 0
    /\ silenced = 0
    /\ seg_k = 1
    /\ scan_i = 0
    /\ pcVad = "idle"

\* processed = wav.clone(); len(speech_timestamps) == 0: processed[:] = 0.0
NoSpeech ==
    /\ pcVad = "clone"
    /\ Len(speech_timestamps) = 0
    /\ processed' = zero_slice(wav, 0, Len(wav))
    /\ pcVad' = "done"
    /\ UNCHANGED <<wav, sr, speech_timestamps, long_sil_threshold_s, speech_mask,
                   in_sil, sil_start, silenced, seg_k, scan_i,
                   vadRest>>

\* processed = wav.clone(); speech_mask = torch.zeros(numel, dtype=bool)
BeginMask ==
    /\ pcVad = "clone"
    /\ Len(speech_timestamps) # 0
    /\ processed' = wav
    /\ speech_mask' = [k \in 1..Len(wav) |-> FALSE]
    /\ seg_k' = 1
    /\ pcVad' = "mask"
    /\ UNCHANGED <<wav, sr, speech_timestamps, long_sil_threshold_s,
                   in_sil, sil_start, silenced, scan_i,
                   vadRest>>

\* one iteration of `for seg in speech_timestamps`
MarkSpeech ==
    /\ pcVad = "mask"
    /\ seg_k <= Len(speech_timestamps)
    /\ LET seg == speech_timestamps[seg_k]
           s == Max2(0, to_sample(seg.start, sr))
           e == Min2(Len(processed), to_sample(seg.end, sr))
       IN  speech_mask' = IF s < e THEN set_true_slice(speech_mask, s, e)
                          ELSE speech_mask
    /\ seg_k' = seg_k + 1
    /\ UNCHANGED <<wav, sr, speech_timestamps, long_sil_threshold_s, processed,
                   in_sil, sil_start, silenced, scan_i, pcVad,
                   vadRest>>

\* in_sil = False; sil_start = 0; silenced = 0
BeginScan ==
    /\ pcVad = "mask"
    /\ seg_k > Len(speech_timestamps)
    /\ in_sil' = FALSE
    /\ sil_start' = 0
    /\ silenced' = 0
    /\ scan_i' = 0
    /\ pcVad' = "scan"
    /\ UNCHANGED <<wav, sr, speech_timestamps, long_sil_threshold_s, processed,
                   speech_mask, seg_k,
                   vadRest>>

\* one iteration of `for i in range(processed.numel())`
ScanStep ==
    /\ pcVad = "scan"
    /\ scan_i < Len(processed)
    /\ LET i == scan_i
           start == IF ~in_sil THEN i ELSE sil_start
       IN  IF ~speech_mask[i + 1]
           THEN /\ sil_start' = start
                /\ IF run_ends_at(speech_mask, i)
                   THEN /\ in_sil' = FALSE
                        /\ IF is_long_silence(start, i, sr, long_sil_threshold_s)
                           THEN /\ processed' = zero_slice(processed, start, i + 1)
                                /\ silenced' = silenced + (i - start + 1)
                           ELSE UNCHANGED <<processed, silenced>>
                   ELSE /\ in_sil' = TRUE
                        /\ UNCHANGED <<processed, silenced>>
           ELSE UNCHANGED <<sil_start, in_sil, processed, silenced>>
    /\ scan_i' = scan_i + 1
    /\ UNCHANGED <<wav, sr, speech_timestamps, long_sil_threshold_s, speech_mask,
                   seg_k, pcVad,
                   vadRest>>

EndScan ==
    /\ pcVad = "scan"
    /\ scan_i >= Len(processed)
    /\ pcVad' = "done"
    /\ UNCHANGED <<wav, sr, speech_timestamps, long_sil_threshold_s, processed,
                   speech_mask, in_sil, sil_start, silenced, seg_k, scan_i,
                   vadRest>>

-----------------------------------------------------------------------------
(* compare_vad_wavs.py, best_offset.  A mask is a sequence of 0/1 (uint8);  *)
(* the element at Python index i is element i + 1.  max_shift is the value *)
(* int(sr * max_shift_ms / 1000) the function computes first.              *)

\* x[lo:hi] of Python: a negative bound counts from the end, and both are
\* clipped to the sequence
py_index(x, k) == IF k < 0 THEN Max2(0, Len(x) + k) ELSE Min2(k, Len(x))
py_slice(x, lo, hi) == SubSeq(x, py_index(x, lo) + 1, py_index(x, hi))

\* a_seg and b_seg for shift s
a_seg_of(x, s) == IF s >= 0 THEN py_slice(x, 0, Len(x) - s) ELSE py_slice(x, -s, Len(x))

\* b_seg cut with the bounds of a_seg
b_seg_as_a(y, s) == IF s >= 0 THEN py_slice(y, 0, Len(y) - s) ELSE py_slice(y, -s, Len(y))

b_seg_of(y, s) == IF s >= 0 THEN py_slice(y, s, Len(y)) ELSE py_slice(y, 0, Len(y) + s)

\* shift_mask(m, sh): sh == 0 returns m; sh > 0 does out[:len(m)-sh] = m[sh:],
\* sh < 0 does out[-sh:] = m[:len(m)+sh], the rest of out stays zero.  The
\* two slices have one length for |sh| <= len(m), the shifts best_offset
\* can return.
shift_mask(m, s) ==
    IF s = 0 THEN m
    ELSE [i \in 1..Len(m) |-> IF i + s \in 1..Len(m) THEN m[i + s] ELSE 0]

\* numpy broadcasting of two 1-d operands: equal lengths, or one of length 1
broadcastable(x, y) == Len(x) = Len(y) \/ Len(x) = 1 \/ Len(y) = 1

\* int(np.sum(x & y)) for broadcastable x, y
and_sum(x, y) ==
    LET n == IF Len(x) = Len(y) THEN Len(x)
             ELSE IF Len(x) = 1 THEN Len(y) ELSE Len(x)
        xs(k) == IF Len(x) = n THEN x[k] ELSE x[1]
        ys(k) == IF Len(y) = n THEN y[k] ELSE y[1]
    IN  Cardinality({k \in 1..n : xs(k) = 1 /\ ys(k) = 1})

\* is_better keeping the last of equal scores
is_better_or_equal(score, best) == score >= best

\* is_better refusing a score of zero
is_better_positive(score, best) == score > best /\ score > 0

\* score > best_score
is_better(score, best) == score > best

MaxMask == 4     \* samples in a mask
MaxShift == 5    \* largest max_shift tried

\* the two masks have one length: main() cuts both signals to the shorter
OffStart ==
    /\ \E n \in 0..MaxMask :
          /\ mask_a \in [1..n -> {0, 1}]
          /\ mask_b \in [1..n -> {0, 1}]
    /\ max_shift \in 0..MaxShift
    /\ sh = -max_shift
    /\ best_sh = 0
    /\ best_score = -1
    /\ pcOff = "scan"

MaxDisplaced == 6    \* samples in a mask that is displaced

\* mask m moved k samples later (earlier for k < 0), zero-filled, samples
\* pushed past either end lost
displaced(m, k) ==
    [i \in 1..Len(m) |-> IF i - k \in 1..Len(m) THEN m[i - k] ELSE 0]

\* the second mask is the first one displaced by at most max_shift samples
ShiftStart ==
    /\ \E n \in 0..MaxDisplaced : mask_a \in [1..n -> {0, 1}]
    /\ max_shift \in 0..MaxShift
    /\ \E k \in (-max_shift)..max_shift : mask_b = displaced(mask_a, k)
    /\ sh = -max_shift
    /\ best_sh = 0
    /\ best_score = -1
    /\ pcOff = "scan"

OffIdle ==
    /\ mask_a = <<>>
    /\ mask_b = <<>>
    /\ max_shift = 0
    /\ sh = 0
    /\ best_sh = 0
    /\ best_score = -1
    /\ pcOff = "idle"

\* len(a_seg) == 0: continue
SkipShift ==
    /\ pcOff = "scan"
    /\ sh <= max_shift
    /\ Len(a_seg_of(mask_a, sh)) = 0
    /\ sh' = sh + 1
    /\ UNCHANGED <<mask_a, mask_b, max_shift, best_sh, best_score, pcOff, offRest>>

\* score = int(np.sum(a_seg & b_seg)); a better score replaces the best
ScoreShift ==
    /\ pcOff = "scan"
    /\ sh <= max_shift
    /\ LET a_seg == a_seg_of(mask_a, sh)
           b_seg == b_seg_of(mask_b, sh)
       IN  /\ Len(a_seg) # 0
           /\ broadcastable(a_seg, b_seg)
           /\ LET score == and_sum(a_seg, b_seg)
              IN  IF is_better(score, best_score)
                  THEN best_score' = score /\ best_sh' = sh
                  ELSE UNCHANGED <<best_score, best_sh>>
    /\ sh' = sh + 1
    /\ UNCHANGED <<mask_a, mask_b, max_shift, pcOff, offRest>>

\* a_seg & b_seg raises ValueError: the operands cannot be broadcast
RaiseShift ==
    /\ pcOff = "scan"
    /\ sh <= max_shift
    /\ LET a_seg == a_seg_of(mask_a, sh)
           b_seg == b_seg_of(mask_b, sh)
       IN  Len(a_seg) # 0 /\ ~broadcastable(a_seg, b_seg)
    /\ pcOff' = "raised"
    /\ UNCHANGED <<mask_a, mask_b, max_shift, sh, best_sh, best_score, offRest>>

\* return best_sh
ReturnBest ==
    /\ pcOff = "scan"
    /\ sh > max_shift
    /\ pcOff' = "done"
    /\ UNCHANGED <<mask_a, mask_b, max_shift, sh, best_sh, best_score, offRest>>

-----------------------------------------------------------------------------
(* cer_compare.py, levenshtein_ops and cer_from_texts; utils.py,           *)
(* calculate_wer.  A table row i is element i + 1 of the table and its     *)
(* column j element j + 1 of the row.  A float result is a pair            *)
(* <<num, den>> standing for num/den.                                      *)

\* the first row with bt[0][j] left None
lev_first_row_unset(m) ==
    [k \in 1..(m + 1) |-> [dp |-> k - 1, bt |-> "N"]]

\* dp[0][j] = j, bt[0][j] = 'I' (bt[0][0] stays None, written "N")
lev_first_row(m) ==
    [k \in 1..(m + 1) |-> [dp |-> k - 1, bt |-> IF k = 1 THEN "N" ELSE "I"]]

\* the inner-loop body with every pair of characters counted as different
lev_cell_all_differ(rc, hc, diag, up, left) ==
    LET cost == 1
        best0 == diag + cost
        useD == up + 1 < best0
        best1 == IF useD THEN up + 1 ELSE best0
        useI == left + 1 < best1
    IN  [dp |-> IF useI THEN left + 1 ELSE best1,
         bt |-> IF useI THEN "I" ELSE IF useD THEN "D" ELSE "M"]

\* the inner-loop body with an insertion costing two
lev_cell_dear_insertion(rc, hc, diag, up, left) ==
    LET cost == IF rc = hc THEN 0 ELSE 1
        best0 == diag + cost
        useD == up + 1 < best0
        best1 == IF useD THEN up + 1 ELSE best0
        useI == left + 2 < best1
    IN  [dp |-> IF useI THEN left + 2 ELSE best1,
         bt |-> IF useI THEN "I" ELSE IF useD THEN "D" ELSE "M"]

\* the inner-loop body with `<=` in the deletion test
lev_cell_deletion_first(rc, hc, diag, up, left) ==
    LET cost == IF rc = hc THEN 0 ELSE 1
        best0 == diag + cost
        useD == up + 1 <= best0
        best1 == IF useD THEN up + 1 ELSE best0
        useI == left + 1 < best1
    IN  [dp |-> IF useI THEN left + 1 ELSE best1,
         bt |-> IF useI THEN "I" ELSE IF useD THEN "D" ELSE "M"]

\* the inner-loop body: diag = dp[i-1][j-1], up = dp[i-1][j], left = dp[i][j-1]
lev_cell(rc, hc, diag, up, left) ==
    LET cost == IF rc = hc THEN 0 ELSE 1
        best0 == diag + cost
        useD == up + 1 < best0
        best1 == IF useD THEN up + 1 ELSE best0
        useI == left + 1 < best1
    IN  [dp |-> IF useI THEN left + 1 ELSE best1,
         bt |-> IF useI THEN "I" ELSE IF useD THEN "D" ELSE "M"]

RECURSIVE lev_fill_row(_, _, _, _, _)
\* row i of the tables from row i - 1 (prev); acc holds columns 0..j-1
lev_fill_row(rc, hyp, prev, j, acc) ==
    IF j > Len(hyp) THEN acc
    ELSE lev_fill_row(rc, hyp, prev, j + 1,
             Append(acc, lev_cell(rc, hyp[j], prev[j].dp, prev[j + 1].dp, acc[j].dp)))

RECURSIVE lev_fill(_, _, _, _)
\* rows i..n appended to the rows 0..i-1 in acc; column 0 is dp = i, bt = 'D'
lev_fill(ref, hyp, i, acc) ==
    IF i > Len(ref) THEN acc
    ELSE lev_fill(ref, hyp, i + 1,
             Append(acc, lev_fill_row(ref[i], hyp, acc[i], 1,
                                      <<[dp |-> i, bt |-> "D"]>>)))

\* the dp and bt tables after the fill loops
lev_tables(ref, hyp) == lev_fill(ref, hyp, 1, <<lev_first_row(Len(hyp))>>)

RECURSIVE lev_backtrace(_, _, _, _, _, _)
\* the while loop from cell (i, j) with the counters in c; safeguard counts
\* the passes through the else branch, i and j are the cell the loop left at
lev_backtrace(ref, hyp, t, i, j, c) ==
    IF ~(i > 0 \/ j > 0) THEN [c EXCEPT !.i = i, !.j = j]
    ELSE LET op == t[i + 1][j + 1].bt
         IN  CASE op = "M" ->
                    lev_backtrace(ref, hyp, t, i - 1, j - 1,
                        IF i > 0 /\ j > 0 /\ ref[i] # hyp[j]
                        THEN [c EXCEPT !.S = @ + 1] ELSE c)
               [] op = "D" ->
                    lev_backtrace(ref, hyp, t, i - 1, j, [c EXCEPT !.D = @ + 1])
               [] op = "I" ->
                    lev_backtrace(ref, hyp, t, i, j - 1, [c EXCEPT !.I = @ + 1])
               [] OTHER ->
                    IF i > 0
                    THEN lev_backtrace(ref, hyp, t, i - 1, j,
                             [c EXCEPT !.D = @ + 1, !.safeguard = @ + 1])
                    ELSE lev_backtrace(ref, hyp, t, i, j - 1,
                             [c EXCEPT !.I = @ + 1, !.safeguard = @ + 1])

\* the counters the backtrace ends with
lev_counts(ref, hyp) ==
    lev_backtrace(ref, hyp, lev_tables(ref, hyp), Len(ref), Len(hyp),
                  [S |-> 0, D |-> 0, I |-> 0, safeguard |-> 0,
                   i |-> Len(ref), j |-> Len(hyp)])

\* return S, D, I, dp[n][m]
levenshtein_ops(ref, hyp) ==
    LET c == lev_counts(ref, hyp)
    IN  [S |-> c.S, D |-> c.D, I |-> c.I,
         distance |-> lev_tables(ref, hyp)[Len(ref) + 1][Len(hyp) + 1].dp]

\* cer_from_texts: N = max(len(ref_text), 1), cer = dist / N
cer_from_texts(ref_text, hyp_text) ==
    LET N == Max2(Len(ref_text), 1)
        r == levenshtein_ops(ref_text, hyp_text)
    IN  [cer |-> <<r.distance, N>>, S |-> r.S, D |-> r.D, I |-> r.I, N |-> N]

\* the else branch of the inner loop without the deletion candidate
wer_cell_no_deletion(rw, hw, diag, up, left) ==
    IF rw = hw THEN diag
    ELSE LET substitution == diag + 1
             insertion == left + 1
         IN  Min2(substitution, insertion)

\* calculate_wer, the inner-loop body: diag = d[i-1][j-1], up = d[i-1][j],
\* left = d[i][j-1]
wer_cell(rw, hw, diag, up, left) ==
    IF rw = hw THEN diag
    ELSE LET substitution == diag + 1
             insertion == left + 1
             deletion == up + 1
         IN  Min2(substitution, Min2(insertion, deletion))

RECURSIVE wer_fill_row(_, _, _, _, _)
\* row i of d from row i - 1 (prev); acc holds columns 0..j-1
wer_fill_row(rw, hypothesis, prev, j, acc) ==
    IF j > Len(hypothesis) THEN acc
    ELSE wer_fill_row(rw, hypothesis, prev, j + 1,
             Append(acc, wer_cell(rw, hypothesis[j], prev[j], prev[j + 1], acc[j])))

RECURSIVE wer_fill(_, _, _, _)
\* rows i..n appended to the rows 0..i-1 in acc; d[i][0] = i
wer_fill(reference, hypothesis, i, acc) ==
    IF i > Len(reference) THEN acc
    ELSE wer_fill(reference, hypothesis, i + 1,
             Append(acc, wer_fill_row(reference[i], hypothesis, acc[i], 1, <<i>>)))

\* the table d after the loops; d[0][j] = j
wer_table(reference, hypothesis) ==
    wer_fill(reference, hypothesis, 1, <<[k \in 1..(Len(hypothesis) + 1) |-> k - 1]>>)

\* calculate_wer with max(len(reference), 1) in place of the empty-reference
\* return
calculate_wer_unguarded(reference, hypothesis) ==
    <<100 * wer_table(reference, hypothesis)[Len(reference) + 1][Len(hypothesis) + 1],
      Max2(Len(reference), 1)>>

\* calculate_wer: (d[n][m] / len(reference)) * 100, and 100.0 or 0.0 for an
\* empty reference
calculate_wer(reference, hypothesis) ==
    IF Len(reference) = 0
    THEN IF Len(hypothesis) > 0 THEN <<100, 1>> ELSE <<0, 1>>
    ELSE <<100 * wer_table(reference, hypothesis)[Len(reference) + 1][Len(hypothesis) + 1],
           Len(reference)>>

MaxLevLen == 5      \* longest sequence over two characters
MaxLevLen3 == 3     \* longest sequence over three characters

\* the references and hypotheses tried
LevInputs == SeqsUpTo({"a", "b"}, MaxLevLen) \cup SeqsUpTo({"a", "b", "c"}, MaxLevLen3)

\* the value of a result not computed yet
Unset == <<>>

LevStart ==
    /\ lev_ref \in LevInputs
    /\ lev_hyp \in LevInputs
    /\ lev_out = Unset
    /\ lev_swapped = Unset
    /\ wer_out = Unset
    /\ cer_out = Unset
    /\ pcLev = "levenshtein_ops"

LevIdle ==
    /\ lev_ref = <<>>
    /\ lev_hyp = <<>>
    /\ lev_out = Unset
    /\ lev_swapped = Unset
    /\ wer_out = Unset
    /\ cer_out = Unset
    /\ pcLev = "idle"

\* levenshtein_ops(ref, hyp)
LevenshteinOps ==
    /\ pcLev = "levenshtein_ops"
    /\ lev_out' = levenshtein_ops(lev_ref, lev_hyp)
    /\ pcLev' = "swapped"
    /\ UNCHANGED <<lev_ref, lev_hyp, lev_swapped, wer_out, cer_out, levRest>>

\* levenshtein_ops(hyp, ref)
LevenshteinOpsSwapped ==
    /\ pcLev = "swapped"
    /\ lev_swapped' = levenshtein_ops(lev_hyp, lev_ref)
    /\ pcLev' = "calculate_wer"
    /\ UNCHANGED <<lev_ref, lev_hyp, lev_out, wer_out, cer_out, levRest>>

\* calculate_wer(ref, hyp), the two sequences taken as word lists
CalculateWer ==
    /\ pcLev = "calculate_wer"
    /\ wer_out' = calculate_wer(lev_ref, lev_hyp)
    /\ pcLev' = "cer_from_texts"
    /\ UNCHANGED <<lev_ref, lev_hyp, lev_out, lev_swapped, cer_out, levRest>>

\* cer_from_texts(ref, hyp)
CerFromTexts ==
    /\ pcLev = "cer_from_texts"
    /\ cer_out' = cer_from_texts(lev_ref, lev_hyp)
    /\ pcLev' = "done"
    /\ UNCHANGED <<lev_ref, lev_hyp, lev_out, lev_swapped, wer_out, levRest>>

-----------------------------------------------------------------------------
(* compare.py, compare_srt_files, and detail_compare.py,                   *)
(* generate_advanced_report, from the two parsed lists on: segments1 and   *)
(* segments2 hold what parse_srt returned.  A raised exception ends the    *)
(* entry point (nothing in it catches one).                                *)

RECURSIVE join_texts(_, _)
\* ' '.join([s.text for s in segs]) from segment k on
join_texts(segs, k) ==
    IF k > Len(segs) THEN <<>>
    ELSE IF k = Len(segs) THEN segs[k].text
    ELSE segs[k].text \o <<" ">> \o join_texts(segs, k + 1)

RECURSIVE split_from(_, _, _, _)
\* text.split(): the maximal runs without whitespace; cur is the run being
\* read, acc the words read so far
split_from(text, k, cur, acc) ==
    IF k > Len(text) THEN IF cur = <<>> THEN acc ELSE Append(acc, cur)
    ELSE IF IsSpace(text[k])
         THEN split_from(text, k + 1, <<>>, IF cur = <<>> THEN acc ELSE Append(acc, cur))
         ELSE split_from(text, k + 1, Append(cur, text[k]), acc)

split(text) == split_from(text, 1, <<>>, <<>>)

RECURSIVE total_words(_, _)
\* sum(len(normalize_text(s.text).split()) for s in segs) from segment k on
total_words(segs, k) ==
    IF k > Len(segs) THEN 0
    ELSE Len(split(normalize_text(segs[k].text))) + total_words(segs, k + 1)

\* seg[0] or seg[-1] of an empty list raises IndexError
timeline_analysis_raises(seg1, seg2) == Len(seg1) = 0 \/ Len(seg2) = 0

\* sum(...) / len(seg) of an empty list raises ZeroDivisionError
segment_analysis_raises(seg1, seg2) == Len(seg1) = 0 \/ Len(seg2) = 0

\* (total_words1 - total_words2) / total_words1 * 100: ZeroDivisionError for
\* total_words1 == 0
word_loss_rate(total_words1, total_words2) ==
    [raises |-> total_words1 = 0,
     value |-> <<(total_words1 - total_words2) * 100, total_words1>>]

MaxRepSegs == 3    \* segments in the two parsed lists together

\* the segments of SegShapes and one whose text holds no word
RepShapes == SegShapes \cup { <<0, 1, <<"!">>>> }

RepStart ==
    /\ \E s1 \in SeqsUpTo(RepShapes, MaxRepSegs) :
       \E s2 \in SeqsUpTo(RepShapes, MaxRepSegs - Len(s1)) :
          /\ segments1 = Numbered(s1, FALSE)
          /\ segments2 = Numbered(s2, FALSE)
    /\ patterns = EmptyPatterns
    /\ matched_seg2_indices = {}
    /\ pos = 1
    /\ pcSeg = "idle"
    /\ rep_entry \in {"compare_srt_files", "generate_advanced_report"}
    /\ rep_out = Unset
    /\ rep_error = "none"
    /\ pcRep = "start"

RepIdle ==
    /\ rep_entry = "none"
    /\ rep_out = Unset
    /\ rep_error = "none"
    /\ pcRep = "idle"

\* compare_srt_files, steps 1 to 3: similarity of the joined texts and WER of
\* their words
CompareTexts ==
    /\ pcRep = "start"
    /\ rep_entry = "compare_srt_files"
    /\ LET text1_norm == normalize_text(join_texts(segments1, 1))
           text2_norm == normalize_text(join_texts(segments2, 1))
           words1 == split(text1_norm)
           words2 == split(text2_norm)
       IN  rep_out' = [similarity |-> ratio(text1_norm, text2_norm),
                       wer |-> calculate_wer(words1, words2),
                       segments_count |-> <<Len(segments1), Len(segments2)>>,
                       words_count |-> <<Len(words1), Len(words2)>>]
    /\ pcRep' = "timeline"
    /\ UNCHANGED <<rep_entry, rep_error, segVars, repRest>>

\* step 4: timeline_analysis(segments1, segments2, ...)
TimelineAnalysis ==
    /\ pcRep = "timeline"
    /\ IF timeline_analysis_raises(segments1, segments2)
       THEN pcRep' = "raised" /\ rep_error' = "IndexError"
       ELSE pcRep' = "segment" /\ UNCHANGED rep_error
    /\ UNCHANGED <<rep_entry, rep_out, segVars, repRest>>

\* step 5: segment_analysis(segments1, segments2, ...), then the return
SegmentAnalysis ==
    /\ pcRep = "segment"
    /\ IF segment_analysis_raises(segments1, segments2)
       THEN pcRep' = "raised" /\ rep_error' = "ZeroDivisionError"
       ELSE pcRep' = "done" /\ UNCHANGED rep_error
    /\ UNCHANGED <<rep_entry, rep_out, segVars, repRest>>

\* generate_advanced_report, the basic statistics, then the call of
\* detect_segment_patterns
BasicStats ==
    /\ pcRep = "start"
    /\ rep_entry = "generate_advanced_report"
    /\ LET total_words1 == total_words(segments1, 1)
           total_words2 == total_words(segments2, 1)
           rate == word_loss_rate(total_words1, total_words2)
       IN  IF rate.raises
           THEN /\ pcRep' = "raised"
                /\ rep_error' = "ZeroDivisionError"
                /\ UNCHANGED <<rep_out, pcSeg>>
           ELSE /\ pcRep' = "detect"
                /\ pcSeg' = "forward"
                /\ rep_out' = [segments1 |-> Len(segments1), segments2 |-> Len(segments2),
                               words1 |-> total_words1, words2 |-> total_words2,
                               word_loss_rate |-> rate.value]
                /\ UNCHANGED rep_error
    /\ UNCHANGED <<rep_entry, segments1, segments2, patterns, matched_seg2_indices, pos,
                   repRest>>

\* analyze_segment_patterns(patterns) after detect_segment_patterns returned
AnalyzePatterns ==
    /\ pcRep = "detect"
    /\ pcSeg = "done"
    /\ pcRep' = "done"
    /\ UNCHANGED <<rep_entry, rep_out, rep_error, segVars, repRest>>

-----------------------------------------------------------------------------
(* utils.py, parse_srt and SRTSegment.parse_time.  A block is the sequence *)
(* of its lines.  A line is described by what the parser can read from it: *)
(* whether int(line) succeeds and its value, the pieces line.split(' --> ')*)
(* gives, and its characters.  A time string is described by the number of *)
(* its ':'-separated fields, whether int()/float() accept them, and their  *)
(* values (whole seconds).                                                 *)

TimeStr(h, m, sec) == [fields |-> 3, numeric |-> TRUE, h |-> h, m |-> m, s |-> sec]
\* "00:0x:01": a field that is no number
GarbledTime == [fields |-> 3, numeric |-> FALSE, h |-> 0, m |-> 0, s |-> 0]
\* "00:01": two fields only
ShortTime == [fields |-> 2, numeric |-> TRUE, h |-> 0, m |-> 0, s |-> 1]
\* a line without digits and colons read as a time
NoTime == [fields |-> 1, numeric |-> FALSE, h |-> 0, m |-> 0, s |-> 0]

\* h, m, s = time_str.replace(',', '.').split(':') raises ValueError unless
\* there are three fields; int(h), int(m), float(s) raise ValueError on a
\* field that is no number
parse_time(time_str) ==
    IF time_str.fields = 3 /\ time_str.numeric
    THEN [raises |-> FALSE,
          value |-> time_str.h * 3600 + time_str.m * 60 + time_str.s]
    ELSE [raises |-> TRUE, value |-> 0]

IndexLine(k) == [is_int |-> TRUE, int |-> k, parts |-> <<NoTime>>, txt |-> <<"1">>]
TimingLine(t1, t2) == [is_int |-> FALSE, int |-> 0, parts |-> <<t1, t2>>, txt |-> <<"-">>]
TextLine(chars) == [is_int |-> FALSE, int |-> 0, parts |-> <<NoTime>>, txt |-> chars]

RECURSIVE join_lines(_, _)
\* ' '.join(lines[k-1:])
join_lines(lines, k) ==
    IF k > Len(lines) THEN <<>>
    ELSE IF k = Len(lines) THEN lines[k].txt
    ELSE lines[k].txt \o <<" ">> \o join_lines(lines, k + 1)

\* the try body of a block of three lines or more: int(lines[0]),
\* parse_time(times[0]), times[1] (IndexError when ' --> ' is missing),
\* parse_time(times[1])
parse_block(lines) ==
    LET times == lines[2].parts
        start == parse_time(times[1])
        end == IF Len(times) >= 2 THEN parse_time(times[2]) ELSE [raises |-> TRUE, value |-> 0]
    IN  [raises |-> ~lines[1].is_int \/ start.raises \/ end.raises,
         segment |-> SRTSegment(lines[1].int, start.value, end.value, join_lines(lines, 3))]

MaxBlocks == 3    \* blocks in a subtitle file

\* the blocks tried: three that can be read (the last with its end before
\* its start), four that cannot, and one of two lines
BlockPool ==
    { <<IndexLine(1), TimingLine(TimeStr(0, 0, 1), TimeStr(0, 0, 2)), TextLine(<<"a">>)>>,
      <<IndexLine(2), TimingLine(TimeStr(0, 1, 0), TimeStr(0, 1, 1)),
        TextLine(<<"b">>), TextLine(<<"a">>)>>,
      <<IndexLine(3), TimingLine(TimeStr(0, 0, 2), TimeStr(0, 0, 1)), TextLine(<<"b">>)>>,
      <<TextLine(<<"a">>), TimingLine(TimeStr(0, 0, 1), TimeStr(0, 0, 2)), TextLine(<<"a">>)>>,
      <<IndexLine(4), TimingLine(GarbledTime, TimeStr(0, 0, 2)), TextLine(<<"a">>)>>,
      <<IndexLine(5), TimingLine(TimeStr(0, 0, 1), ShortTime), TextLine(<<"a">>)>>,
      <<IndexLine(6), TextLine(<<"a">>), TextLine(<<"b">>)>>,
      <<IndexLine(7), TimingLine(TimeStr(0, 0, 1), TimeStr(0, 0, 2))>> }

SrtStart ==
    /\ srt_content \in SeqsUpTo(BlockPool, MaxBlocks)
    /\ srt_segments = <<>>
    /\ srt_pos = 1
    /\ srt_warnings = 0
    /\ pcSrt = "blocks"

SrtIdle ==
    /\ srt_content = <<>>
    /\ srt_segments = <<>>
    /\ srt_pos = 1
    /\ srt_warnings = 0
    /\ pcSrt = "idle"

\* a block of fewer than three lines is passed over
SkipShortBlock ==
    /\ pcSrt = "blocks"
    /\ srt_pos <= Len(srt_content)
    /\ Len(srt_content[srt_pos]) < 3
    /\ srt_pos' = srt_pos + 1
    /\ UNCHANGED <<srt_content, srt_segments, srt_warnings, pcSrt, srtRest>>

\* segments.append(SRTSegment(index, start, end, text))
AppendSegment ==
    /\ pcSrt = "blocks"
    /\ srt_pos <= Len(srt_content)
    /\ Len(srt_content[srt_pos]) >= 3
    /\ LET r == parse_block(srt_content[srt_pos])
       IN  /\ ~r.raises
           /\ srt_segments' = Append(srt_segments, r.segment)
    /\ srt_pos' = srt_pos + 1
    /\ UNCHANGED <<srt_content, srt_warnings, pcSrt, srtRest>>

\* except Exception: print the warning, continue
WarnBlock ==
    /\ pcSrt = "blocks"
    /\ srt_pos <= Len(srt_content)
    /\ Len(srt_content[srt_pos]) >= 3
    /\ parse_block(srt_content[srt_pos]).raises
    /\ srt_warnings' = srt_warnings + 1
    /\ srt_pos' = srt_pos + 1
    /\ UNCHANGED <<srt_content, srt_segments, pcSrt, srtRest>>

\* return segments
SrtReturn ==
    /\ pcSrt = "blocks"
    /\ srt_pos > Len(srt_content)
    /\ pcSrt' = "done"
    /\ UNCHANGED <<srt_content, srt_segments, srt_pos, srt_warnings, srtRest>>

-----------------------------------------------------------------------------
(* analyze_whisper_segments.py, load_segments.  A JSON value is described  *)
(* by its kind and, for a number or a string that float() accepts, its     *)
(* value; times are whole units.                                           *)

JNumber(v) == [kind |-> "number", v |-> v]
\* a string such as "1.0", which float() converts
JNumeral(v) == [kind |-> "numeral", v |-> v]
\* a string such as "abc": float() raises ValueError
JText == [kind |-> "text", v |-> 0]
\* null: float(None) raises TypeError
JNull == [kind |-> "null", v |-> 0]
\* the key is absent
JAbsent == [kind |-> "absent", v |-> 0]

\* d.get(key, default)
json_get(x, default) == IF x.kind = "absent" THEN default ELSE x

\* float(x)
to_float(x) == [raises |-> x.kind \in {"text", "null"}, value |-> x.v]

JWord(start, end, word) == [start |-> start, end |-> end, word |-> word]
JSegment(start, end, text, words) ==
    [is_dict |-> TRUE, start |-> start, end |-> end, text |-> text, words |-> words]
\* a segment that is no object (a bare string): s.get raises AttributeError
JNotDict == [is_dict |-> FALSE, start |-> JAbsent, end |-> JAbsent, text |-> <<>>, words |-> <<>>]

RECURSIVE normalize_words(_, _, _)
\* the inner loop: a word whose start or end float() rejects is passed over
normalize_words(words, start, k) ==
    IF k > Len(words) THEN <<>>
    ELSE LET w == words[k]
             ws == to_float(json_get(w.start, JNumber(start)))
             we == to_float(json_get(w.end, JNumber(start)))
             rest == normalize_words(words, start, k + 1)
         IN  IF ws.raises \/ we.raises THEN rest
             ELSE <<[start |-> ws.value, end |-> we.value, word |-> Strip(w.word)]>> \o rest

\* one pass of `for s in segments`: the entry appended to out, or the
\* exception that leaves load_segments
load_one(seg) ==
    IF ~seg.is_dict THEN [raises |-> "AttributeError", entry |-> <<>>]
    ELSE LET start == to_float(json_get(seg.start, JNumber(0)))
             end == to_float(json_get(seg.end, JNumber(start.value)))
         IN  IF start.raises
             THEN [raises |-> IF seg.start.kind = "null" THEN "TypeError" ELSE "ValueError",
                   entry |-> <<>>]
             ELSE IF end.raises
             THEN [raises |-> IF seg.end.kind = "null" THEN "TypeError" ELSE "ValueError",
                   entry |-> <<>>]
             ELSE [raises |-> "none",
                   entry |-> [start |-> start.value, end |-> end.value, text |-> seg.text,
                              words |-> normalize_words(seg.words, start.value, 1)]]

\* (s["start"], s["end"]) of x is at most that of y
key_le(x, y) == x.start < y.start \/ (x.start = y.start /\ x.end <= y.end)

RECURSIVE sort_by_start_end(_)
\* out.sort(key=lambda s: (s["start"], s["end"])): stable
sort_by_start_end(out) ==
    IF Len(out) <= 1 THEN out
    ELSE LET n == Len(out)
             front == sort_by_start_end(SubSeq(out, 1, n - 1))
             x == out[n]
             before == SelectSeq(front, LAMBDA y : key_le(y, x))
             after == SelectSeq(front, LAMBDA y : ~key_le(y, x))
         IN  before \o <<x>> \o after

MaxJsonSegments == 3    \* segments in a JSON file

\* the segments tried: well-formed ones (numbers, numerals, absent keys, a
\* word list with one unreadable word) and malformed ones
JsonPool ==
    { JSegment(JNumber(1), JNumber(2), <<"a">>, <<>>),
      JSegment(JNumber(0), JNumber(1), <<"b">>,
               <<JWord(JNumber(0), JNumber(1), <<" ", "b">>), JWord(JText, JNumber(1), <<"a">>)>>),
      JSegment(JNumeral(1), JAbsent, <<"a", "b">>, <<>>),
      JSegment(JAbsent, JNumber(3), <<"b", "a">>, <<>>),
      JSegment(JText, JNumber(2), <<"a">>, <<>>),
      JSegment(JNumber(1), JNull, <<"a">>, <<>>),
      JNotDict }

LoadStart ==
    /\ json_segments \in SeqsUpTo(JsonPool, MaxJsonSegments)
    /\ load_out = <<>>
    /\ load_pos = 1
    /\ load_error = "none"
    /\ pcLoad = "segments"

LoadIdle ==
    /\ json_segments = <<>>
    /\ load_out = <<>>
    /\ load_pos = 1
    /\ load_error = "none"
    /\ pcLoad = "idle"

\* out.append({...})
LoadSegment ==
    /\ pcLoad = "segments"
    /\ load_pos <= Len(json_segments)
    /\ LET r == load_one(json_segments[load_pos])
       IN  /\ r.raises = "none"
           /\ load_out' = Append(load_out, r.entry)
    /\ load_pos' = load_pos + 1
    /\ UNCHANGED <<json_segments, load_error, pcLoad, loadRest>>

\* float() or s.get raises outside any try: load_segments is left
LoadRaise ==
    /\ pcLoad = "segments"
    /\ load_pos <= Len(json_segments)
    /\ LET r == load_one(json_segments[load_pos])
       IN  /\ r.raises # "none"
           /\ load_error' = r.raises
    /\ pcLoad' = "raised"
    /\ UNCHANGED <<json_segments, load_out, load_pos, loadRest>>

\* out.sort(...); return out
LoadReturn ==
    /\ pcLoad = "segments"
    /\ load_pos > Len(json_segments)
    /\ load_out' = sort_by_start_end(load_out)
    /\ pcLoad' = "done"
    /\ UNCHANGED <<json_segments, load_pos, load_error, loadRest>>

-----------------------------------------------------------------------------
(* vad_test.py, vad_filter, the filtering part: the same suppression with  *)
(* the threshold fixed at one second.  It runs on the signal, sample rate  *)
(* and speech timestamps given to vad_filter_only; times are in half       *)
(* seconds as there.                                                       *)

\* a name the branch taken never binds
Unbound == "unbound"

\* int(segment[...] * sample_rate) for a time of t half seconds
vt_sample(t, rate) == (t * rate) \div 2

RECURSIVE vt_mark(_, _, _, _, _)
\* `for segment in merged_segments` from segment k on
vt_mark(mask, merged_segments, k, n, rate) ==
    IF k > Len(merged_segments) THEN mask
    ELSE LET segment == merged_segments[k]
             start_sample == Max2(0, vt_sample(segment.start, rate))
             end_sample == Min2(n, vt_sample(segment.end, rate))
         IN  vt_mark(IF start_sample < end_sample
                     THEN [x \in 1..n |->
                              IF start_sample <= x - 1 /\ x - 1 < end_sample
                              THEN TRUE ELSE mask[x]]
                     ELSE mask,
                     merged_segments, k + 1, n, rate)

\* vt_long_silence with a threshold of half a second
vt_long_silence_half(silence_start, i, rate) ==
    2 * (i - silence_start + 1) >= rate

\* silence_length >= long_silence_threshold, the threshold 1.0 and
\* silence_length = (i - silence_start + 1) / sample_rate
vt_long_silence(silence_start, i, rate) ==
    (i - silence_start + 1) >= rate

RECURSIVE vt_scan(_, _, _, _)
\* `for i in range(len(processed_audio))` from sample i on; st holds
\* processed_audio, silenced_samples, in_silence and silence_start
vt_scan(st, mask, i, rate) ==
    IF i >= Len(st.processed_audio) THEN st
    ELSE IF ~mask[i + 1]
    THEN LET silence_start == IF ~st.in_silence THEN i ELSE st.silence_start
             opened == [st EXCEPT !.in_silence = TRUE, !.silence_start = silence_start]
         IN  IF i = Len(st.processed_audio) - 1 \/ mask[i + 2]
             THEN vt_scan(
                      IF vt_long_silence(silence_start, i, rate)
                      THEN [opened EXCEPT
                               !.processed_audio =
                                   [x \in 1..Len(@) |->
                                       IF silence_start <= x - 1 /\ x - 1 < i + 1
                                       THEN 0 ELSE @[x]],
                               !.silenced_samples = @ + (i - silence_start + 1),
                               !.in_silence = FALSE]
                      ELSE [opened EXCEPT !.in_silence = FALSE],
                      mask, i + 1, rate)
             ELSE vt_scan(opened, mask, i + 1, rate)
    ELSE vt_scan(st, mask, i + 1, rate)

\* processed_audio, speech_mask and silenced_samples when the filtering is
\* over; the last two are bound in the else branch only
vad_filter(signal, rate, merged_segments) ==
    IF Len(merged_segments) = 0
    THEN [processed_audio |-> [x \in 1..Len(signal) |-> 0],
          speech_mask |-> Unbound,
          silenced_samples |-> Unbound]
    ELSE LET mask == vt_mark([x \in 1..Len(signal) |-> FALSE], merged_segments, 1,
                             Len(signal), rate)
             st == vt_scan([processed_audio |-> signal, silenced_samples |-> 0,
                            in_silence |-> FALSE, silence_start |-> 0],
                           mask, 0, rate)
         IN  [processed_audio |-> st.processed_audio,
              speech_mask |-> mask,
              silenced_samples |-> st.silenced_samples]

VtIdle == vt_out = Unset

\* vad_filter on the inputs vad_filter_only has just processed
VadFilter ==
    /\ pcVad = "done"
    /\ vt_out = Unset
    /\ vt_out' = vad_filter(wav, sr, speech_timestamps)
    /\ UNCHANGED vtRest

-----------------------------------------------------------------------------
(* scheduler-fast-api/main.py, the mock STT server.  A handler has no      *)
(* await in its body, so the event loop runs each request to its end       *)
(* before the next: one action per request.  A string is a sequence of     *)
(* one-character strings; request_status is a function from the keys       *)
(* present to their status_info records.                                    *)

DigitChars == <<"0", "1", "2", "3", "4", "5", "6", "7", "8", "9">>

RECURSIVE py_str(_)
\* str(n) for n >= 0
py_str(n) ==
    IF n < 10 THEN <<DigitChars[n + 1]>>
    ELSE py_str(n \div 10) \o <<DigitChars[(n % 10) + 1]>>

IsDigit(c) == \E d \in 1..10 : DigitChars[d] = c
DigitValue(c) == (CHOOSE d \in 1..10 : DigitChars[d] = c) - 1

\* int(s) returns for a non-empty string of digits and raises ValueError
\* for the other strings modelled
IsNumeral(s) == Len(s) > 0 /\ \A k \in 1..Len(s) : IsDigit(s[k])

RECURSIVE py_int(_)
\* int(s) for a numeral s: leading zeros are dropped
py_int(s) ==
    IF Len(s) = 1 THEN DigitValue(s[1])
    ELSE 10 * py_int(SubSeq(s, 1, Len(s) - 1)) + DigitValue(s[Len(s)])

\* d[key] = value
dict_set(d, key, value) ==
    [k \in DOMAIN d \cup {key} |-> IF k = key THEN value ELSE d[k]]

\* may_complete from the first poll on
may_complete_at_once(created_at) == created_at >= 1

\* status_info["created_at"] >= 2
may_complete(created_at) == created_at >= 2

MaxId == 2       \* random.randint draws from 1..MaxId
MaxPolls == 3    \* polls counted for one key

\* the req_uid of a progress path: the keys stt_main can create, a key
\* written with a leading zero, and a string that is no number
PathUids ==
    {py_str(n) : n \in 1..MaxId} \cup {<<"0">> \o py_str(1), <<"x">>}

ContentIds == {"c1", "c2"}
Filenames == {"a.wav"}

\* request_status = {} at import; no request served yet
SttStart ==
    /\ request_status = <<>>
    /\ stt_response = [kind |-> "none"]
    /\ stt_polls = <<>>

\* POST /stt/main
SttMain ==
    /\ \E req_uid \in 1..MaxId, content_id \in ContentIds, filename \in Filenames :
          /\ request_status' =
                 dict_set(request_status, py_str(req_uid),
                          [status |-> "pending", created_at |-> 0,
                           content_id |-> content_id, filename |-> filename])
          /\ stt_response' = [kind |-> "main", req_uid |-> req_uid]
          /\ stt_polls' = dict_set(stt_polls, py_str(req_uid), <<>>)
    /\ UNCHANGED sttRest

\* GET /stt/progress/{req_uid}/{content_id}, req_uid not in request_status
SttProgressUnknown ==
    /\ \E req_uid \in PathUids, content_id \in ContentIds :
          /\ req_uid \notin DOMAIN request_status
          /\ IsNumeral(req_uid)
          /\ stt_response' =
                 [kind |-> "progress", path |-> req_uid, status |-> "pending",
                  content_id |-> content_id, req_uid |-> py_int(req_uid),
                  overall_progress |-> 0]
    /\ UNCHANGED <<request_status, stt_polls, sttRest>>

\* the same branch when int(req_uid) raises ValueError
SttProgressRaise ==
    /\ \E req_uid \in PathUids :
          /\ req_uid \notin DOMAIN request_status
          /\ ~IsNumeral(req_uid)
          /\ stt_response' = [kind |-> "error", path |-> req_uid]
    /\ UNCHANGED <<request_status, stt_polls, sttRest>>

\* GET /stt/progress/{req_uid}/{content_id}, req_uid in request_status;
\* draw is random.random() < 0.7
SttProgress ==
    /\ \E req_uid \in PathUids, content_id \in ContentIds, draw \in BOOLEAN :
          /\ req_uid \in DOMAIN request_status
          /\ request_status[req_uid].created_at < MaxPolls
          /\ LET status_info == request_status[req_uid]
                 created_at == status_info.created_at + 1
                 status == IF may_complete(created_at) /\ draw
                           THEN "completed" ELSE status_info.status
             IN  /\ request_status' =
                        [request_status EXCEPT
                            ![req_uid] = [status_info EXCEPT
                                             !.created_at = created_at,
                                             !.status = status]]
                 /\ stt_response' =
                        [kind |-> "progress", path |-> req_uid, status |-> status,
                         content_id |-> content_id, req_uid |-> py_int(req_uid),
                         overall_progress |-> Min2(created_at * 10, 100)]
                 /\ stt_polls' = [stt_polls EXCEPT ![req_uid] = Append(@, status)]
    /\ UNCHANGED sttRest

-----------------------------------------------------------------------------
(* Specifications: one routine runs, the others stay idle *)

SegInit ==
    /\ SegStart /\ VadIdle /\ OffIdle /\ LevIdle /\ RepIdle /\ SrtIdle /\ LoadIdle
    /\ VtIdle /\ SttStart
SegNext == ForwardStep \/ ForwardDone \/ BackwardStep \/ BackwardDone
SpecSeg == SegInit /\ [][SegNext]_vars

VadInit ==
    /\ VadStart /\ SegIdle /\ OffIdle /\ LevIdle /\ RepIdle /\ SrtIdle /\ LoadIdle
    /\ VtIdle /\ SttStart
VadNext ==
    \/ NoSpeech \/ BeginMask \/ MarkSpeech \/ BeginScan \/ ScanStep \/ EndScan
    \/ VadFilter
SpecVad == VadInit /\ [][VadNext]_vars

OffInit ==
    /\ OffStart /\ SegIdle /\ VadIdle /\ LevIdle /\ RepIdle /\ SrtIdle /\ LoadIdle
    /\ VtIdle /\ SttStart
OffNext == SkipShift \/ ScoreShift \/ RaiseShift \/ ReturnBest
SpecOff == OffInit /\ [][OffNext]_vars

ShiftInit ==
    /\ ShiftStart /\ SegIdle /\ VadIdle /\ LevIdle /\ RepIdle /\ SrtIdle /\ LoadIdle
    /\ VtIdle /\ SttStart
SpecShift == ShiftInit /\ [][OffNext]_vars

LevInit ==
    /\ LevStart /\ SegIdle /\ VadIdle /\ OffIdle /\ RepIdle /\ SrtIdle /\ LoadIdle
    /\ VtIdle /\ SttStart
LevNext == LevenshteinOps \/ LevenshteinOpsSwapped \/ CalculateWer \/ CerFromTexts
SpecLev == LevInit /\ [][LevNext]_vars

RepInit ==
    /\ RepStart /\ VadIdle /\ OffIdle /\ LevIdle /\ SrtIdle /\ LoadIdle
    /\ VtIdle /\ SttStart
RepNext ==
    \/ CompareTexts \/ TimelineAnalysis \/ SegmentAnalysis
    \/ BasicStats \/ ForwardStep \/ ForwardDone \/ BackwardStep \/ BackwardDone
    \/ AnalyzePatterns
SpecRep == RepInit /\ [][RepNext]_vars

\* one of the two parsers runs
ParseInit ==
    /\ \/ SrtStart /\ LoadIdle
       \/ LoadStart /\ SrtIdle
    /\ SegIdle /\ VadIdle /\ OffIdle /\ LevIdle /\ RepIdle
    /\ VtIdle /\ SttStart
ParseNext ==
    \/ SkipShortBlock \/ AppendSegment \/ WarnBlock \/ SrtReturn
    \/ LoadSegment \/ LoadRaise \/ LoadReturn
SpecParse == ParseInit /\ [][ParseNext]_vars

SttInit ==
    /\ SttStart
    /\ SegIdle /\ VadIdle /\ OffIdle /\ LevIdle /\ RepIdle /\ SrtIdle /\ LoadIdle
    /\ VtIdle
SttNext == SttMain \/ SttProgressUnknown \/ SttProgressRaise \/ SttProgress
SpecStt == SttInit /\ [][SttNext]_vars

-----------------------------------------------------------------------------
(* Properties of detect_segment_patterns *)

Dur(s) == s.end_time - s.start_time
OverlapDur(s, t) == Max2(0, Min2(s.end_time, t.end_time) - Max2(s.start_time, t.start_time))

\* s and t overlap by at least 0.2 of the shorter of them
MeetsOverlap(s, t) ==
    Dur(s) > 0 /\ Dur(t) > 0 /\ 5 * OverlapDur(s, t) >= Min2(Dur(s), Dur(t))

\* positions of the B segments that overlap A segment i, of the A segments
\* that overlap B segment j
OverlapB(i) == {j \in 1..Len(segments2) : MeetsOverlap(segments1[i], segments2[j])}
OverlapA(j) == {i \in 1..Len(segments1) : MeetsOverlap(segments1[i], segments2[j])}

RECURSIVE Ascending(_)
\* the members of a set of numbers, in increasing order
Ascending(S) ==
    IF S = {} THEN <<>>
    ELSE LET lo == CHOOSE x \in S : \A y \in S : x <= y
         IN  <<lo>> \o Ascending(S \ {lo})

\* the forward pass has visited A segment i
Visited(i) == pcSeg # "forward" \/ i < pos

\* number of records of a list that carry A segment i as seg1
Seg1Count(list, i) == Cardinality({k \in 1..Len(list) : list[k].seg1 = i})

Seg1Total(i) ==
    Seg1Count(patterns.one_to_one, i) + Seg1Count(patterns.text_diff_only, i)
    + Seg1Count(patterns.split, i) + Seg1Count(patterns.timeline_mismatch, i)
    + Seg1Count(patterns.missing, i)

\* C1: every segment of source A the forward pass has visited is recorded as
\* seg1 in exactly one record of exactly one of the lists one_to_one,
\* text_diff_only, split, timeline_mismatch, missing, and a segment not yet
\* visited in none: no A segment is recorded twice, none is left out.
C1_EachSeg1ExactlyOnce ==
    \A i \in 1..Len(segments1) : Seg1Total(i) = IF Visited(i) THEN 1 ELSE 0

\* a finished run over two A segments that were classified differently
C1_Witness ==
    /\ pcSeg = "done"
    /\ Len(segments1) >= 2
    /\ patterns.split # <<>>
    /\ patterns.one_to_one # <<>>

\* C2 (as claimed): after the backward pass, every B segment that two or more
\* A segments overlap carries a Merged record whose seg1_list holds exactly
\* those A segments.
C2_MergedForSharedB ==
    pcSeg = "done" =>
        \A j \in 1..Len(segments2) :
            Cardinality(OverlapA(j)) >= 2 =>
                \E k \in 1..Len(patterns.merged) :
                    /\ patterns.merged[k].seg2 = j
                    /\ patterns.merged[k].seg1_list = Ascending(OverlapA(j))

\* no B segment of A segment i is near-identical in text to it
NoNearIdentical(i) ==
    \A j \in OverlapB(i) :
        ~SimGT(text_similarity(segments1[i].text, segments2[j].text), <<95, 100>>)

\* C3: a visited A segment that two or more B segments overlap, none with a
\* normalized-text similarity above 0.95, has a Split record whose seg2_list
\* is all its overlapping B segments in B order.
C3_SplitRecordsAllOverlaps ==
    \A i \in 1..Len(segments1) :
        (Visited(i) /\ Cardinality(OverlapB(i)) >= 2 /\ NoNearIdentical(i)) =>
            \E k \in 1..Len(patterns.split) :
                /\ patterns.split[k].seg1 = i
                /\ patterns.split[k].seg2_list = Ascending(OverlapB(i))

\* the scenario of the specification: "a b" over [0,2] against "a" over [0,1]
\* and "b" over [1,2] has ended in one Split with two candidates
C3_Witness ==
    /\ pcSeg = "done"
    /\ Len(segments1) = 1 /\ Len(segments2) = 2
    /\ segments1[1].text = <<"a", " ", "b">>
    /\ segments2[1].text = <<"a">> /\ segments2[2].text = <<"b">>
    /\ Len(patterns.split) = 1
    /\ patterns.split[1].seg2_list = <<1, 2>>

-----------------------------------------------------------------------------
(* Properties of the long-silence suppressor *)

\* the sample at Python index i lies inside a detected speech segment
SpeechAt(i) ==
    \E k \in 1..Len(speech_timestamps) :
        /\ (speech_timestamps[k].start * sr) \div 2 <= i
        /\ i < (speech_timestamps[k].end * sr) \div 2

SampleIndices == 0..(Len(wav) - 1)

\* first and last index of the maximal run of non-speech samples around i
RunFirst(i) ==
    CHOOSE lo \in 0..i :
        /\ \A j \in lo..i : ~SpeechAt(j)
        /\ lo = 0 \/ SpeechAt(lo - 1)
RunLast(i) ==
    CHOOSE hi \in i..(Len(wav) - 1) :
        /\ \A j \in i..hi : ~SpeechAt(j)
        /\ hi = Len(wav) - 1 \/ SpeechAt(hi + 1)

\* i lies in a silence run of at least long_sil_threshold_s seconds
InLongSilence(i) ==
    /\ ~SpeechAt(i)
    /\ 2 * (RunLast(i) - RunFirst(i) + 1) >= long_sil_threshold_s * sr

\* C4: when at least one speech segment was detected, the finished output is
\* zero at every sample of a maximal non-speech run whose duration is at
\* least the threshold, and equals the input at every other sample (speech,
\* and silence runs shorter than the threshold), wherever the run lies.
C4_LongSilenceZeroedOnly ==
    (pcVad = "done" /\ Len(speech_timestamps) > 0) =>
        \A i \in SampleIndices :
            processed[i + 1] = IF InLongSilence(i) THEN 0 ELSE wav[i + 1]

\* a long run starting at sample 0 was zeroed and a shorter run ending at the
\* last sample was kept, both over non-zero input
C4_Witness ==
    /\ pcVad = "done"
    /\ Len(speech_timestamps) > 0
    /\ Len(wav) >= 3
    /\ InLongSilence(0) /\ wav[1] # 0 /\ processed[1] = 0
    /\ ~SpeechAt(Len(wav) - 1) /\ ~InLongSilence(Len(wav) - 1)
    /\ wav[Len(wav)] # 0 /\ processed[Len(wav)] = wav[Len(wav)]

\* C5: from the moment the output exists, every sample inside a speech
\* segment holds its input value, whatever the threshold.
C5_SpeechUntouched ==
    pcVad \in {"mask", "scan", "done"} =>
        \A i \in SampleIndices : SpeechAt(i) => processed[i + 1] = wav[i + 1]

\* a non-zero speech sample was kept right after a silence that was zeroed
C5_Witness ==
    /\ pcVad = "done"
    /\ \E i \in SampleIndices :
          /\ i > 0
          /\ SpeechAt(i) /\ wav[i + 1] # 0 /\ processed[i + 1] = wav[i + 1]
          /\ ~SpeechAt(i - 1) /\ wav[i] # 0 /\ processed[i] = 0

\* C6: from the moment the output exists it has as many samples as the input.
C6_LengthKept ==
    pcVad \in {"mask", "scan", "done"} => Len(processed) = Len(wav)

\* a run in which some samples, but not all, were zeroed
C6_Witness ==
    /\ pcVad = "done"
    /\ Len(wav) >= 3
    /\ silenced > 0
    /\ silenced < Len(wav)
    /\ Len(processed) = Len(wav)

\* C7 (as claimed): when no sample is marked speech, the finished output is
\* zero everywhere.
C7_NoSpeechZeroesAll ==
    (pcVad = "done" /\ \A i \in SampleIndices : ~SpeechAt(i)) =>
        \A i \in SampleIndices : processed[i + 1] = 0

-----------------------------------------------------------------------------
(* Properties of best_offset *)

\* positions where mask_a and mask_b moved s samples earlier are both true
AndCount(s) ==
    Cardinality({i \in 1..Len(mask_a) :
                    /\ i + s \in 1..Len(mask_b)
                    /\ mask_a[i] = 1
                    /\ mask_b[i + s] = 1})

Shifts == (-max_shift)..max_shift

\* the shifts that leave the two masks a non-empty overlap
OverlappingShifts == {s \in Shifts : Abs(s) < Len(mask_a)}

\* C8 (as claimed): best_offset returns, and the shift it returns lies in
\* [-max_shift, +max_shift] and has an AND count at least that of every other
\* shift of the range.
C8_ReturnsMaximalShift ==
    /\ pcOff # "raised"
    /\ pcOff = "done" =>
          /\ best_sh \in Shifts
          /\ \A s \in Shifts : AndCount(best_sh) >= AndCount(s)

\* the shifts of the range with the maximal AND count
BestShifts == {s \in Shifts : \A u \in Shifts : AndCount(s) >= AndCount(u)}

\* C9 (as claimed): when several shifts have the maximal AND count, the one
\* returned has the smallest absolute value among them.
C9_TieSmallestAbs ==
    (pcOff = "done" /\ Cardinality(BestShifts) >= 2) =>
        /\ best_sh \in BestShifts
        /\ \A s \in BestShifts : Abs(best_sh) <= Abs(s)

\* C9 (amended): the shift returned is the most negative, that is the first
\* scanned, of the shifts with a non-empty overlap whose AND count is maximal
\* among them.
C9_TieFirstScanned ==
    (pcOff = "done" /\ OverlappingShifts # {}) =>
        /\ best_sh \in OverlappingShifts
        /\ \A s \in OverlappingShifts :
              \/ AndCount(s) < AndCount(best_sh)
              \/ AndCount(s) = AndCount(best_sh) /\ best_sh <= s

\* a shift closer to zero has the same maximal, non-zero count as the
\* negative shift returned
C9_Witness ==
    /\ pcOff = "done"
    /\ best_sh < 0
    /\ AndCount(best_sh) > 0
    /\ \E s \in OverlappingShifts :
          Abs(s) < Abs(best_sh) /\ AndCount(s) = AndCount(best_sh)

\* C10 (as claimed): a mask with a true entry aligned with itself gives 0,
\* whatever max_shift.
C10_SelfAlignmentIsZero ==
    (mask_a = mask_b /\ \E i \in 1..Len(mask_a) : mask_a[i] = 1) =>
        /\ pcOff # "raised"
        /\ pcOff = "done" => best_sh = 0

\* the displacements that turn mask_a into mask_b
Displacements == {k \in Shifts : mask_b = displaced(mask_a, k)}

\* the true samples of mask_a that displacement k kept inside the array
Survivors(k) == {i \in 1..Len(mask_a) : mask_a[i] = 1 /\ i + k \in 1..Len(mask_a)}

\* the positions where mask_a and the re-aligned mask_b are both true
Restored == {i \in 1..Len(mask_a) :
                mask_a[i] = 1 /\ shift_mask(mask_b, best_sh)[i] = 1}

-----------------------------------------------------------------------------
(* Properties of levenshtein_ops, calculate_wer and cer_from_texts *)

NoEdits == [S |-> 0, D |-> 0, I |-> 0, distance |-> 0]

\* C12: levenshtein_ops of a sequence, the empty one included, with itself
\* returns (S, D, I, distance) = (0, 0, 0, 0).
C12_SelfDistanceZero ==
    (lev_out # Unset /\ lev_ref = lev_hyp) => lev_out = NoEdits

\* a sequence of the longest length compared with itself
C12_Witness ==
    /\ lev_out = NoEdits
    /\ lev_ref = lev_hyp
    /\ lev_ref = <<"a", "b", "a">>

\* C13 (as claimed): levenshtein_ops(a, b) and levenshtein_ops(b, a) return
\* the same distance and the same substitution count, and the deletions of
\* one are the insertions of the other.
C13_SwapSymmetric ==
    lev_swapped # Unset =>
        /\ lev_out.distance = lev_swapped.distance
        /\ lev_out.S = lev_swapped.S
        /\ lev_out.D = lev_swapped.I
        /\ lev_out.I = lev_swapped.D

\* C13 (amended): levenshtein_ops(a, b) and levenshtein_ops(b, a) return the
\* same distance, and the excess of deletions over insertions of one is the
\* excess of insertions over deletions of the other; the three counts
\* themselves need not mirror.
C13_DistanceSymmetric ==
    lev_swapped # Unset =>
        /\ lev_out.distance = lev_swapped.distance
        /\ lev_out.D - lev_out.I = lev_swapped.I - lev_swapped.D

\* abab against baaba: no substitution one way, two the other way
C13_Witness ==
    /\ lev_ref = <<"a", "b", "a", "b">>
    /\ lev_hyp = <<"b", "a", "a", "b", "a">>
    /\ lev_out = [S |-> 0, D |-> 1, I |-> 2, distance |-> 3]
    /\ lev_swapped = [S |-> 2, D |-> 1, I |-> 0, distance |-> 3]

Reverse(x) == [k \in 1..Len(x) |-> x[Len(x) + 1 - k]]

RECURSIVE MinEditsRow(_, _, _, _, _)
\* the least number of edits turning x into each prefix of y, from the row
\* (prev) of x without its last element
MinEditsRow(xc, y, prev, j, acc) ==
    IF j > Len(y) THEN acc
    ELSE LET keep == prev[j] + (IF xc = y[j] THEN 0 ELSE 1)
             drop == prev[j + 1] + 1
             add == acc[j] + 1
         IN  MinEditsRow(xc, y, prev, j + 1, Append(acc, Min2(keep, Min2(drop, add))))

RECURSIVE MinEditsRows(_, _, _, _)
MinEditsRows(x, y, i, prev) ==
    IF i > Len(x) THEN prev
    ELSE MinEditsRows(x, y, i + 1, MinEditsRow(x[i], y, prev, 1, <<i>>))

\* the least number of unit-cost substitutions, insertions and deletions
\* turning x into y, computed from the ends of the two sequences
MinEdits(x, y) ==
    MinEditsRows(Reverse(x), Reverse(y), 1, [k \in 1..(Len(y) + 1) |-> k - 1])[Len(y) + 1]

\* C14: for a non-empty reference calculate_wer is 100 * d / len(reference),
\* d the least number of unit-cost substitutions, insertions and deletions
\* turning the reference into the hypothesis, and levenshtein_ops returns the
\* same d as its distance.
C14_WerIsNormalisedDistance ==
    (wer_out # Unset /\ Len(lev_ref) > 0) =>
        /\ wer_out[1] * Len(lev_ref) = 100 * MinEdits(lev_ref, lev_hyp) * wer_out[2]
        /\ lev_out.distance = MinEdits(lev_ref, lev_hyp)

\* one substitution out of three words: 100 / 3
C14_Witness ==
    /\ lev_ref = <<"a", "b", "a">>
    /\ lev_hyp = <<"a", "c", "a">>
    /\ wer_out = <<100, 3>>
    /\ lev_out.distance = 1

\* C15: with an empty reference calculate_wer returns 100.0 for every
\* non-empty hypothesis and 0.0 for the empty hypothesis.
C15_EmptyReference ==
    (wer_out # Unset /\ Len(lev_ref) = 0) =>
        wer_out[1] = (IF Len(lev_hyp) > 0 THEN 100 ELSE 0) * wer_out[2]

\* an empty reference against the longest hypothesis
C15_Witness ==
    /\ lev_ref = <<>>
    /\ Len(lev_hyp) = MaxLevLen
    /\ wer_out = <<100, 1>>

\* C16 (as claimed): cer_from_texts returns a cer in [0, 1] for all inputs,
\* and 1 for an empty reference with a non-empty hypothesis.
C16_CerInUnitInterval ==
    cer_out # Unset =>
        /\ 0 <= cer_out.cer[1]
        /\ cer_out.cer[1] <= cer_out.cer[2]
        /\ (Len(lev_ref) = 0 /\ Len(lev_hyp) > 0) => cer_out.cer[1] = cer_out.cer[2]

-----------------------------------------------------------------------------
(* Properties of the empty and malformed inputs *)

\* C17: detect_segment_patterns completes on an empty list: with segments2
\* empty every segment of segments1 is recorded as missing, once and in
\* order, and the other five lists are empty; with segments1 empty all six
\* lists are empty.
C17_EmptyListDegenerates ==
    pcSeg = "done" =>
        /\ Len(segments2) = 0 =>
              /\ patterns.missing =
                     [i \in 1..Len(segments1) |-> [seg1 |-> i, seg2_list |-> <<>>]]
              /\ [patterns EXCEPT !.missing = <<>>] = EmptyPatterns
        /\ Len(segments1) = 0 => patterns = EmptyPatterns

\* the second list is empty and the first holds several segments
C17_Witness ==
    /\ pcSeg = "done"
    /\ Len(segments2) = 0
    /\ Len(segments1) >= 2
    /\ Len(patterns.missing) = Len(segments1)

\* a parsed list is empty, or the parsed lists hold no word
EmptyInput ==
    \/ Len(segments1) = 0
    \/ Len(segments2) = 0
    \/ total_words(segments1, 1) = 0
    \/ total_words(segments2, 1) = 0

\* C18 (as claimed): compare_srt_files and generate_advanced_report raise no
\* exception when a parsed list is empty or holds no word.
C18_EmptyInputNeverRaises ==
    (pcRep # "idle" /\ EmptyInput) => pcRep # "raised"

\* a block parse_srt can read: three lines or more, a number, and a timing
\* line of two readable times
Readable(block) ==
    /\ Len(block) >= 3
    /\ block[1].is_int
    /\ Len(block[2].parts) = 2
    /\ \A k \in 1..2 : block[2].parts[k].fields = 3 /\ block[2].parts[k].numeric

\* a JSON segment load_segments can read: an object whose start and end are
\* numbers, numerals or absent
ReadableJson(seg) ==
    /\ seg.is_dict
    /\ seg.start.kind \in {"number", "numeral", "absent"}
    /\ seg.end.kind \in {"number", "numeral", "absent"}

\* C19 (as claimed): a malformed record is dropped and never aborts the
\* batch: parse_srt returns the segments of the readable blocks, in input
\* order, and load_segments returns an entry for every readable JSON segment.
C19_MalformedRecordDropped ==
    /\ pcSrt = "done" =>
          LET kept == SelectSeq(srt_content, Readable)
          IN  /\ Len(srt_segments) = Len(kept)
              /\ \A k \in 1..Len(kept) :
                    /\ srt_segments[k].index = kept[k][1].int
                    /\ srt_segments[k].text = join_lines(kept[k], 3)
    /\ pcLoad # "raised"
    /\ pcLoad = "done" =>
          Len(load_out) = Len(SelectSeq(json_segments, ReadableJson))

\* C20 (as claimed): parse_srt returns no segment whose end_time is before
\* its start_time.
C20_NoReversedSegment ==
    pcSrt = "done" =>
        \A k \in 1..Len(srt_segments) :
            srt_segments[k].end_time >= srt_segments[k].start_time

-----------------------------------------------------------------------------
(* Properties of the classification branches of detect_segment_patterns *)

\* normalized-text similarity of A segment i and B segment j
Sim(i, j) == text_similarity(segments1[i].text, segments2[j].text)

\* the B segments whose text is at least 0.85 similar to that of A segment i
TextCandidates(i) == {j \in 1..Len(segments2) : SimGE(Sim(i, j), <<85, 100>>)}

\* the candidate of highest similarity, the earliest in B on equal similarity
BestCandidate(i) ==
    CHOOSE j \in TextCandidates(i) :
        \A k \in TextCandidates(i) :
            \/ SimGT(Sim(i, j), Sim(i, k))
            \/ ~SimGT(Sim(i, k), Sim(i, j)) /\ j <= k

\* C21: in the patterns returned, an A segment that no B segment overlaps
\* is recorded as a timeline mismatch exactly when some B segment has a normalized-text
\* similarity of at least 0.85 with it, paired with the B segment of highest
\* similarity (the earliest on equal similarity); otherwise it is recorded
\* as missing with an empty seg2_list.
C21_NoOverlapBranch ==
    \A i \in 1..Len(segments1) :
        (pcSeg = "done" /\ OverlapB(i) = {}) =>
            IF TextCandidates(i) # {}
            THEN /\ Seg1Count(patterns.missing, i) = 0
                 /\ \E k \in 1..Len(patterns.timeline_mismatch) :
                       /\ patterns.timeline_mismatch[k].seg1 = i
                       /\ patterns.timeline_mismatch[k].seg2 = BestCandidate(i)
                       /\ patterns.timeline_mismatch[k].similarity = Sim(i, BestCandidate(i))
            ELSE /\ Seg1Count(patterns.timeline_mismatch, i) = 0
                 /\ \E k \in 1..Len(patterns.missing) :
                       /\ patterns.missing[k].seg1 = i
                       /\ patterns.missing[k].seg2_list = <<>>

\* two B segments are equally similar to an A segment they do not overlap,
\* and the earlier one is paired with it
C21_Witness ==
    /\ pcSeg = "done"
    /\ \E i \in 1..Len(segments1) :
          /\ OverlapB(i) = {}
          /\ Cardinality(TextCandidates(i)) >= 2
          /\ \E k \in 1..Len(patterns.timeline_mismatch) :
                /\ patterns.timeline_mismatch[k].seg1 = i
                /\ patterns.timeline_mismatch[k].seg2 = 1

\* list holds a record pairing A segment i with B segment j at similarity x
Pairs(list, i, j, x) ==
    \E k \in 1..Len(list) :
        list[k].seg1 = i /\ list[k].seg2 = j /\ list[k].similarity = x

NearIdentical(i) == {j \in OverlapB(i) : SimGT(Sim(i, j), <<95, 100>>)}

\* the earliest member of a non-empty set of positions
First(S) == CHOOSE x \in S : \A y \in S : x <= y

\* the B segments whose index is in the set m
Consumed(m) == {j \in 1..Len(segments2) : segments2[j].index \in m}

\* C23 (as claimed): the forward step of an A segment with more than one
\* overlapping B segment, one of them more than 0.95 similar in text, records
\* it as one_to_one with the first such candidate and not as split; that
\* candidate is the only B segment the step marks matched, the other
\* overlapping candidates are as unconsumed after the step as before.
C23_DisguisedOneToOne ==
    [][(pcSeg = "forward" /\ pos <= Len(segments1)
            /\ Cardinality(OverlapB(pos)) > 1 /\ NearIdentical(pos) # {}) =>
         LET j == First(NearIdentical(pos))
         IN  /\ \E k \in 1..Len(patterns'.one_to_one) :
                   patterns'.one_to_one[k].seg1 = pos /\ patterns'.one_to_one[k].seg2 = j
             /\ \A k \in 1..Len(patterns'.split) : patterns'.split[k].seg1 # pos
             /\ Consumed(matched_seg2_indices') \ Consumed(matched_seg2_indices) \subseteq {j}
      ]_vars

\* B segment j is the seg2 of a one_to_one, text_diff_only or
\* timeline_mismatch record, or a member of the seg2_list of a split record
InForwardRecord(j) ==
    \/ \E k \in 1..Len(patterns.one_to_one) : patterns.one_to_one[k].seg2 = j
    \/ \E k \in 1..Len(patterns.text_diff_only) : patterns.text_diff_only[k].seg2 = j
    \/ \E k \in 1..Len(patterns.timeline_mismatch) : patterns.timeline_mismatch[k].seg2 = j
    \/ \E k \in 1..Len(patterns.split) : j \in Range(patterns.split[k].seg2_list)

\* B segment j is the seg2 of a merged record
IsMerged(j) == \E k \in 1..Len(patterns.merged) : patterns.merged[k].seg2 = j

\* C24 (as claimed): after the backward pass a B segment consumed in the
\* forward pass is the seg2 of no merged record, and the B segments with a
\* merged record are exactly the unconsumed ones that more than one A
\* segment overlaps.
C24_MergedExactlyUnconsumed ==
    pcSeg = "done" =>
        \A j \in 1..Len(segments2) :
            IsMerged(j) <=> (~InForwardRecord(j) /\ Cardinality(OverlapA(j)) > 1)

\* the segments of B carry pairwise different indices
UniqueIndicesB ==
    \A j, k \in 1..Len(segments2) : segments2[j].index = segments2[k].index => j = k

\* C28: with unique indices in B, a B segment b has a merged record only if
\* every A segment that overlaps b has at least two overlapping B segments
\* and is recorded one_to_one with a B segment other than b; in particular
\* no A segment has b as its only overlapping B segment.
C28_MergedOnlyBesideOneToOne ==
    (pcSeg = "done" /\ UniqueIndicesB) =>
        \A j \in 1..Len(segments2) :
            IsMerged(j) =>
                \A i \in OverlapA(j) :
                    /\ Cardinality(OverlapB(i)) >= 2
                    /\ \E k \in 1..Len(patterns.one_to_one) :
                          /\ patterns.one_to_one[k].seg1 = i
                          /\ patterns.one_to_one[k].seg2 # j

\* a merged record exists for a B segment with unique indices in B
C28_Witness ==
    /\ pcSeg = "done"
    /\ UniqueIndicesB
    /\ \E j \in 1..Len(segments2) : IsMerged(j) /\ Cardinality(OverlapA(j)) >= 2

-----------------------------------------------------------------------------
(* Properties of the backtrace of levenshtein_ops                          *)

\* the least number of edits turning each prefix of the reference (i
\* characters) into each prefix of the hypothesis (j characters, element
\* j + 1 of the row)
Dist ==
    [i \in 0..Len(lev_ref) |->
        MinEditsRows(SubSeq(lev_ref, 1, i), lev_hyp, 1,
                     [k \in 1..(Len(lev_hyp) + 1) |-> k - 1])]

\* the cost of reaching cell (i, j) by each of the three operations, d the
\* table of least costs
ByMatch(d, i, j) == d[i - 1][j] + (IF lev_ref[i] = lev_hyp[j] THEN 0 ELSE 1)
ByDeletion(d, i, j) == d[i - 1][j + 1] + 1
ByInsertion(d, i, j) == d[i][j] + 1

\* the operation the stated order of preference picks at cell (i, j)
Preferred(d, i, j) ==
    IF i = 0 THEN "I"
    ELSE IF j = 0 THEN "D"
    ELSE IF ByMatch(d, i, j) = d[i][j + 1] THEN "M"
    ELSE IF ByDeletion(d, i, j) = d[i][j + 1] THEN "D"
    ELSE "I"

RECURSIVE PreferredCounts(_, _, _, _)
\* the substitutions, deletions and insertions on the path the stated order
\* of preference takes from cell (i, j) back to cell (0, 0)
PreferredCounts(d, i, j, c) ==
    IF i = 0 /\ j = 0 THEN c
    ELSE CASE Preferred(d, i, j) = "M" ->
                  PreferredCounts(d, i - 1, j - 1,
                      IF lev_ref[i] # lev_hyp[j] THEN [c EXCEPT !.S = @ + 1] ELSE c)
           [] Preferred(d, i, j) = "D" ->
                  PreferredCounts(d, i - 1, j, [c EXCEPT !.D = @ + 1])
           [] Preferred(d, i, j) = "I" ->
                  PreferredCounts(d, i, j - 1, [c EXCEPT !.I = @ + 1])

\* more than one operation gives the least cost at cell (i, j)
Tied(d, i, j) ==
    Cardinality({o \in {"M", "D", "I"} :
        d[i][j + 1] = (CASE o = "M" -> ByMatch(d, i, j)
                     [] o = "D" -> ByDeletion(d, i, j)
                     [] o = "I" -> ByInsertion(d, i, j))}) > 1

\* C25: when levenshtein_ops returns, the operation recorded at every cell
\* of the table is match or substitution if that is minimal, otherwise
\* deletion if that is minimal, otherwise insertion; the counts returned are
\* those of the one path this order of preference picks.
C25_TieBreakOrder ==
    pcLev = "swapped" =>
        \A d \in {Dist}, t \in {lev_tables(lev_ref, lev_hyp)} :
            /\ \A i \in 1..Len(lev_ref), j \in 1..Len(lev_hyp) :
                   t[i + 1][j + 1].bt = Preferred(d, i, j)
            /\ \A c \in {PreferredCounts(d, Len(lev_ref), Len(lev_hyp),
                                          [S |-> 0, D |-> 0, I |-> 0])} :
                   lev_out.S = c.S /\ lev_out.D = c.D /\ lev_out.I = c.I

\* 'ab' against 'ba': two substitutions, or a deletion and an insertion, both
\* cost two; the substitutions are returned
C25_Witness ==
    /\ lev_ref = <<"a", "b">>
    /\ lev_hyp = <<"b", "a">>
    /\ pcLev = "swapped"
    /\ Tied(Dist, 2, 2)
    /\ lev_out = [S |-> 2, D |-> 0, I |-> 0, distance |-> 2]

\* C26: the counts add up to the distance, the backtrace leaves its loop at
\* cell (0, 0) and never passes through the branch for an unset entry.
C26_CountsAddUp ==
    pcLev = "swapped" =>
        LET c == lev_counts(lev_ref, lev_hyp)
        IN  /\ lev_out.S + lev_out.D + lev_out.I = lev_out.distance
            /\ c.i = 0
            /\ c.j = 0
            /\ c.safeguard = 0

\* a result with a substitution, a deletion and the first row crossed
C26_Witness ==
    /\ pcLev = "swapped"
    /\ lev_out.S >= 1
    /\ lev_out.D >= 1
    /\ lev_out.distance >= 3

-----------------------------------------------------------------------------
(* Properties of best_offset on masks that never meet                      *)

\* no shift of the range brings a true sample of each mask together
NeverMeet == \A s \in Shifts : AndCount(s) = 0

\* C30: when the masks have no common true position at any shift of the
\* range and max_shift is smaller than the mask length, best_offset returns
\* -max_shift, the first shift scanned.
C30_NeverMeetReturnsFirstShift ==
    (pcOff = "done" /\ max_shift < Len(mask_a) /\ NeverMeet) => best_sh = -max_shift

\* both masks hold a true sample, no shift of the range aligns them, and
\* the shift returned is not zero
C30_Witness ==
    /\ pcOff = "done"
    /\ max_shift >= 1
    /\ max_shift < Len(mask_a)
    /\ \E k \in 1..Len(mask_a) : mask_a[k] = 1
    /\ \E k \in 1..Len(mask_b) : mask_b[k] = 1
    /\ NeverMeet
    /\ best_sh = -max_shift

-----------------------------------------------------------------------------
(* Equivalence of the two suppression scans                                *)

\* C27: for the same signal, sample rate and speech timestamps, vad_filter
\* and vad_filter_only with long_sil_threshold_s = 1.0 produce the same
\* processed signal and, where they build them (a non-empty list of
\* timestamps), the same speech mask and the same count of silenced samples.
\* The threshold is in half seconds: 2 is 1.0 s.
C27_SameSuppression ==
    (vt_out # Unset /\ long_sil_threshold_s = 2) =>
        /\ vt_out.processed_audio = processed
        /\ IF Len(speech_timestamps) = 0
           THEN vt_out.speech_mask = Unbound /\ vt_out.silenced_samples = Unbound
           ELSE vt_out.speech_mask = speech_mask /\ vt_out.silenced_samples = silenced

\* both routines zeroed a long silence and kept a short one beside speech
C27_Witness ==
    /\ vt_out # Unset
    /\ long_sil_threshold_s = 2
    /\ Len(speech_timestamps) > 0
    /\ vt_out.silenced_samples = silenced
    /\ silenced > 0
    /\ \E k \in 1..Len(wav) : speech_mask[k]
    /\ \E k \in 1..Len(wav) : ~speech_mask[k] /\ wav[k] # 0 /\ processed[k] = wav[k]
    /\ vt_out.processed_audio = processed

-----------------------------------------------------------------------------
(* Properties of the mock STT server                                       *)

\* C29: for every key, the statuses reported by /stt/progress since
\* /stt/main last created the key never start with 'completed', and after
\* a 'completed' every later one is 'completed'.
C29_CompletedLateAndSticky ==
    \A key \in DOMAIN stt_polls :
        LET reported == stt_polls[key]
        IN  /\ Len(reported) >= 1 => reported[1] # "completed"
            /\ \A a, b \in 1..Len(reported) :
                   (a < b /\ reported[a] = "completed") => reported[b] = "completed"

\* two keys polled in turn: one went pending, completed, completed while
\* the other was created and polled once
C29_Witness ==
    /\ py_str(1) \in DOMAIN stt_polls
    /\ py_str(2) \in DOMAIN stt_polls
    /\ stt_polls[py_str(1)] = <<"pending", "completed", "completed">>
    /\ stt_polls[py_str(2)] = <<"pending">>
    /\ stt_response.kind = "progress"
    /\ stt_response.path = py_str(1)
    /\ stt_response.status = "completed"
====
